---- MODULE Spec2Model ----
(***************************************************************************)
(* Model of the blueprint schema core of mac-blueprint                     *)
(* (src/utils/schema.js) and of the command-line tools that call it        *)
(* (src/tools/apply.js, src/tools/diff.js).                                *)
(*                                                                         *)
(* A blueprint document is a value parsed from a JSON file, so the model   *)
(* carries JavaScript values with their type tag: the validator's checks   *)
(* are truthiness tests, Array.isArray tests and property reads, and they  *)
(* are modelled by what they do on each kind of value.                     *)
(***************************************************************************)
EXTENDS Integers, Sequences, FiniteSets, TLC

(***************************************************************************)
(* Bounds of the model.                                                    *)
(***************************************************************************)
\* how many places of the factory document the parsed file may differ in
MaxEdits == 2
\* how many calls of the schema functions one run of the harness makes
MaxCalls == 3

(***************************************************************************)
(* JavaScript values.  Every value is a record of the same shape; the tag  *)
(* t says which payload field is meaningful.  A string is the sequence of  *)
(* its characters, so that String.prototype.split is computed, not assumed.*)
(***************************************************************************)
Undefined == [t |-> "undefined", b |-> FALSE, n |-> 0, s |-> <<>>, a |-> <<>>, o |-> <<>>]
Null      == [t |-> "null",      b |-> FALSE, n |-> 0, s |-> <<>>, a |-> <<>>, o |-> <<>>]
Bool(x)   == [t |-> "boolean",   b |-> x,     n |-> 0, s |-> <<>>, a |-> <<>>, o |-> <<>>]
Num(x)    == [t |-> "number",    b |-> FALSE, n |-> x, s |-> <<>>, a |-> <<>>, o |-> <<>>]
Str(x)    == [t |-> "string",    b |-> FALSE, n |-> 0, s |-> x,    a |-> <<>>, o |-> <<>>]
Arr(x)    == [t |-> "array",     b |-> FALSE, n |-> 0, s |-> <<>>, a |-> x,    o |-> <<>>]
Obj(x)    == [t |-> "object",    b |-> FALSE, n |-> 0, s |-> <<>>, a |-> <<>>, o |-> x]

\* ToBoolean: what `if (v)` and `!v` test
Truthy(v) ==
  CASE v.t = "undefined" -> FALSE
    [] v.t = "null"      -> FALSE
    [] v.t = "boolean"   -> v.b
    [] v.t = "number"    -> v.n # 0
    [] v.t = "string"    -> v.s # <<>>
    [] OTHER             -> TRUE

IsArray(v) == v.t = "array"

\* typeof v === 'object' (true of null, arrays and plain objects)
TypeofObject(v) == v.t \in {"null", "array", "object"}

\* a property read on undefined or null raises a TypeError
ReadThrows(v) == v.t \in {"undefined", "null"}

\* the document carries key k as an own property
HasOwn(v, k) == v.t = "object" /\ k \in DOMAIN v.o

\* v.k / v[k] for a data key k, on a value that is neither undefined nor
\* null: own properties of an object, undefined on everything else
Get(v, k) == IF HasOwn(v, k) THEN v.o[k] ELSE Undefined

\* v.k = x on an object
Put(v, k, x) ==
  [v EXCEPT !.o = [j \in (DOMAIN v.o) \cup {k} |-> IF j = k THEN x ELSE v.o[j]]]

\* delete of an own property: how a file that omits the key parses
Del(v, k) == [v EXCEPT !.o = [j \in (DOMAIN v.o) \ {k} |-> v.o[j]]]

(***************************************************************************)
(* String constants of the model, as character sequences.                  *)
(***************************************************************************)
S_empty   == <<>>
S_unknown == <<"u", "n", "k">>
S_abc     == <<"a", "b", "c">>
S_git     == <<"g", "i", "t">>
S_10      == <<"1", ".", "0">>
S_20      == <<"2", ".", "0">>
S_21      == <<"2", ".", "1">>
S_30      == <<"3", ".", "0">>
S_2       == <<"2">>
S_210     == <<"2", "1", ".", "0">>

\* schema.js line 5
SCHEMA_VERSION == S_20

\* the value new Date().toISOString() returns (always a non-empty string)
IsoDates == {<<"2", "4", "Z">>}


(***************************************************************************)
(* createEmptySetup (schema.js 114-155).  date is the value of             *)
(* new Date().toISOString() at the call.                                   *)
(***************************************************************************)
EmptyManager == Obj([k \in {"installed", "versions"} |->
                      IF k = "installed" THEN Bool(FALSE) ELSE Arr(<<>>)])

\* createEmptySetup with the formulae collection forgotten
createEmptySetup_NoFormulae(date) ==
  Obj([k \in {"version", "system", "homebrew"} |->
    CASE k = "version" -> Str(SCHEMA_VERSION)
      [] k = "system" ->
           Obj([f \in {"hostname", "macosVersion", "captureDate"} |->
                 IF f = "captureDate" THEN Str(date) ELSE Str(S_unknown)])
      [] OTHER -> Obj([f \in {"taps", "casks"} |-> Arr(<<>>)])])

createEmptySetup(date) ==
  Obj([k \in {"version", "system", "applications", "homebrew", "binaries",
              "homeBin", "githubRepos", "globalPackages", "shellConfigs",
              "gitConfig", "versionManagers", "menubarConfig"} |->
    CASE k = "version" -> Str(SCHEMA_VERSION)
      [] k = "system" ->
           Obj([f \in {"hostname", "macosVersion", "architecture",
                       "homebrewVersion", "captureDate"} |->
                 IF f = "captureDate" THEN Str(date) ELSE Str(S_unknown)])
      [] k = "homebrew" ->
           Obj([f \in {"taps", "casks", "formulae"} |-> Arr(<<>>)])
      [] k = "globalPackages" ->
           Obj([f \in {"npm", "bun", "dart", "ruby"} |-> Arr(<<>>)])
      [] k = "gitConfig" ->
           Obj([f \in {"user", "settings"} |->
                 IF f = "user" THEN Obj(<<>>) ELSE Arr(<<>>)])
      [] k = "versionManagers" ->
           Obj([f \in {"nvm", "pyenv", "rbenv"} |-> EmptyManager])
      [] k = "menubarConfig" ->
           Obj([f \in {"loginItems", "runningApps", "launchAgents"} |-> Arr(<<>>)])
      [] OTHER -> Arr(<<>>)])

(***************************************************************************)
(* validateSetup (schema.js 12-108).  The function is a sequence of rules, *)
(* each reading the document and pushing messages onto errors.  acc is the *)
(* state of the call between two rules: the errors pushed so far and       *)
(* whether a TypeError has been raised (after which nothing more runs and  *)
(* the call has no return value).                                          *)
(***************************************************************************)
Push(acc, cond, msg) ==
  IF acc.threw \/ ~cond THEN acc ELSE [acc EXCEPT !.errors = Append(@, msg)]

\* the backfill stamping the current schema version instead of "1.0"
BackfillVersion_Current(setup) ==
  IF ~Truthy(Get(setup, "version")) THEN Put(setup, "version", Str(SCHEMA_VERSION))
  ELSE setup

\* the backfill normalising every document to "1.0" unless it is current
BackfillVersion_Always(setup) ==
  IF Get(setup, "version") # Str(SCHEMA_VERSION) THEN Put(setup, "version", Str(S_10))
  ELSE setup

\* schema.js 16-20: the legacy backfill, the one write to the document
BackfillVersion(setup) ==
  IF ~Truthy(Get(setup, "version")) THEN Put(setup, "version", Str(S_10)) ELSE setup

\* schema.js 23-35
CheckSystem(setup, acc) ==
  LET system == Get(setup, "system") IN
  IF ~Truthy(system)
  THEN Push(acc, TRUE, "Missing required field: system")
  ELSE LET a1 == Push(acc, ~Truthy(Get(system, "hostname")),
                      "Missing required field: system.hostname")
           a2 == Push(a1, ~Truthy(Get(system, "macosVersion")),
                      "Missing required field: system.macosVersion")
       IN  Push(a2, ~Truthy(Get(system, "captureDate")),
                "Missing required field: system.captureDate")

\* the template literals of schema.js 55 and 63; idx is the forEach index
CaskMessage(idx) ==
  "Invalid cask at index " \o ToString(idx) \o ": missing 'name' field"
FormulaMessage(idx) ==
  "Invalid formula at index " \o ToString(idx) \o ": missing 'name' field"

\* schema.js 53-57 and 61-65: the forEach callbacks, from element i on
\* (elements are numbered from 1 here, from 0 in the messages); reading
\* .name of a null element raises
RECURSIVE ForEachCask(_, _, _)
ForEachCask(casks, i, acc) ==
  IF i > Len(casks) \/ acc.threw THEN acc
  ELSE IF ReadThrows(casks[i]) THEN [acc EXCEPT !.threw = TRUE]
  ELSE ForEachCask(casks, i + 1,
         Push(acc, ~Truthy(Get(casks[i], "name")), CaskMessage(i - 1)))

RECURSIVE ForEachFormula(_, _, _)
ForEachFormula(formulae, i, acc) ==
  IF i > Len(formulae) \/ acc.threw THEN acc
  ELSE IF ReadThrows(formulae[i]) THEN [acc EXCEPT !.threw = TRUE]
  ELSE ForEachFormula(formulae, i + 1,
         Push(acc, ~Truthy(Get(formulae[i], "name")), FormulaMessage(i - 1)))

\* schema.js 38-67
CheckHomebrew(setup, acc) ==
  LET homebrew == Get(setup, "homebrew") IN
  IF ~Truthy(homebrew)
  THEN Push(acc, TRUE, "Missing required field: homebrew")
  ELSE LET taps     == Get(homebrew, "taps")
           casks    == Get(homebrew, "casks")
           formulae == Get(homebrew, "formulae")
           a1 == Push(acc, ~IsArray(taps),
                      "Invalid field: homebrew.taps must be an array")
           a2 == Push(a1, ~IsArray(casks),
                      "Invalid field: homebrew.casks must be an array")
           a3 == Push(a2, ~IsArray(formulae),
                      "Invalid field: homebrew.formulae must be an array")
           a4 == IF IsArray(casks) THEN ForEachCask(casks.a, 1, a3) ELSE a3
       IN  IF IsArray(formulae) THEN ForEachFormula(formulae.a, 1, a4) ELSE a4

\* schema.js 70-72
CheckApplications(setup, acc) ==
  LET applications == Get(setup, "applications") IN
  Push(acc, Truthy(applications) /\ ~IsArray(applications),
       "Invalid field: applications must be an array")

\* schema.js 76-81, one turn of the loop over managers
CheckManager(globalPackages, manager, acc) ==
  LET pkgs == Get(globalPackages, manager) IN
  Push(acc, Truthy(pkgs) /\ ~IsArray(pkgs),
       "Invalid field: globalPackages." \o manager \o " must be an array")

\* schema.js 75-82
CheckGlobalPackages(setup, acc) ==
  LET globalPackages == Get(setup, "globalPackages") IN
  IF ~Truthy(globalPackages) THEN acc
  ELSE CheckManager(globalPackages, "ruby",
         CheckManager(globalPackages, "dart",
           CheckManager(globalPackages, "bun",
             CheckManager(globalPackages, "npm", acc))))

\* schema.js 85-87
CheckShellConfigs(setup, acc) ==
  LET shellConfigs == Get(setup, "shellConfigs") IN
  Push(acc, Truthy(shellConfigs) /\ ~IsArray(shellConfigs),
       "Invalid field: shellConfigs must be an array")

\* schema.js 90-97
CheckGitConfig(setup, acc) ==
  LET gitConfig == Get(setup, "gitConfig") IN
  IF ~Truthy(gitConfig) THEN acc
  ELSE LET user     == Get(gitConfig, "user")
           settings == Get(gitConfig, "settings")
           a1 == Push(acc, Truthy(user) /\ ~TypeofObject(user),
                      "Invalid field: gitConfig.user must be an object")
       IN  Push(a1, Truthy(settings) /\ ~IsArray(settings),
                "Invalid field: gitConfig.settings must be an array")

\* schema.js 100-102
CheckGithubRepos(setup, acc) ==
  LET githubRepos == Get(setup, "githubRepos") IN
  Push(acc, Truthy(githubRepos) /\ ~IsArray(githubRepos),
       "Invalid field: githubRepos must be an array")

\* schema.js 12-108: the whole call.  setup is the document as the call
\* leaves it; threw says that the call raised instead of returning, and
\* then valid and errors are not a return value (FALSE and <<>> here).
validateSetup(setup0) ==
  LET setup == BackfillVersion(setup0)
      acc   == CheckGithubRepos(setup,
                 CheckGitConfig(setup,
                   CheckShellConfigs(setup,
                     CheckGlobalPackages(setup,
                       CheckApplications(setup,
                         CheckHomebrew(setup,
                           CheckSystem(setup,
                             [threw |-> FALSE, errors |-> <<>>])))))))
  IN  [setup  |-> setup,
       threw  |-> acc.threw,
       valid  |-> ~acc.threw /\ Len(acc.errors) = 0,
       errors |-> IF acc.threw THEN <<>> ELSE acc.errors]

(***************************************************************************)
(* isCompatibleVersion (schema.js 162-173).                                *)
(***************************************************************************)
\* String.prototype.split on a one-character separator: the segments of s
\* from position i on, each ending before the next occurrence of the
\* separator or at the end of s
RECURSIVE SplitFrom(_, _, _)
SplitFrom(s, sep, i) ==
  IF \A j \in i..Len(s) : s[j] # sep THEN <<SubSeq(s, i, Len(s))>>
  ELSE LET next == CHOOSE j \in i..Len(s) : s[j] = sep /\ \A k \in i..(j - 1) : s[k] # sep
       IN  <<SubSeq(s, i, next - 1)>> \o SplitFrom(s, sep, next + 1)

Split(s, sep) == SplitFrom(s, sep, 1)

\* the check comparing the first character only, not the major component
isCompatibleVersion_FirstChar(setup) ==
  LET version == Get(setup, "version") IN
  IF ~Truthy(version) THEN [threw |-> FALSE, ret |-> TRUE]
  ELSE IF version.t # "string" THEN [threw |-> TRUE, ret |-> FALSE]
  ELSE [threw |-> FALSE, ret |-> (version.s[1] = SCHEMA_VERSION[1])]

\* the legacy exemption extended to documents stamped with major version 1
isCompatibleVersion_Legacy1(setup) ==
  LET version == Get(setup, "version") IN
  IF ~Truthy(version) THEN [threw |-> FALSE, ret |-> TRUE]
  ELSE IF version.t # "string" THEN [threw |-> TRUE, ret |-> FALSE]
  ELSE LET major        == Split(version.s, ".")[1]
           currentMajor == Split(SCHEMA_VERSION, ".")[1]
       IN  [threw |-> FALSE, ret |-> (major = currentMajor \/ major = <<"1">>)]

\* threw: the call raised (version.split is not a function when version is
\* a truthy value that is not a string); ret is the boolean returned
isCompatibleVersion(setup) ==
  LET version == Get(setup, "version") IN
  IF ~Truthy(version) THEN [threw |-> FALSE, ret |-> TRUE]
  ELSE IF version.t # "string" THEN [threw |-> TRUE, ret |-> FALSE]
  ELSE LET major        == Split(version.s, ".")[1]
           currentMajor == Split(SCHEMA_VERSION, ".")[1]
       IN  [threw |-> FALSE, ret |-> (major = currentMajor)]

(***************************************************************************)
(* diffSetups (schema.js 181-255).  The report is a record of lists; the   *)
(* outcome of a call is whether it raised, the report it returned, and the *)
(* two documents as the call left them.  Map and Set compare keys by value *)
(* for strings, numbers and undefined, as = does here; the documents of    *)
(* the model carry no object as a name.                                    *)
(***************************************************************************)
NoChanges == [added |-> <<>>, removed |-> <<>>]

\* schema.js 182-198
EmptyDiff ==
  [applications   |-> [added |-> <<>>, removed |-> <<>>, updated |-> <<>>],
   homebrew       |-> [c \in {"formulae", "casks", "taps"} |-> NoChanges],
   globalPackages |-> [m \in {"npm", "bun", "dart", "ruby"} |-> NoChanges]]

\* list.map(callback) with a callback reading a property of each element
\* raises unless list is an array without null or undefined elements
MapThrows(list) == ~IsArray(list) \/ \E i \in 1..Len(list.a) : ReadThrows(list.a[i])

\* the keys of new Map(entries.map(a => [a.name, a])) in insertion order: a
\* name is inserted where it occurs first
RECURSIVE MapKeys(_, _)
MapKeys(entries, seen) ==
  IF entries = <<>> THEN <<>>
  ELSE LET name == Get(entries[1], "name") IN
       IF name \in seen THEN MapKeys(Tail(entries), seen)
       ELSE <<name>> \o MapKeys(Tail(entries), seen \cup {name})

\* map.get(name): the last entry set under the name
MapGet(entries, name) ==
  LET last == CHOOSE i \in 1..Len(entries) :
                /\ Get(entries[i], "name") = name
                /\ \A j \in (i + 1)..Len(entries) : Get(entries[j], "name") # name
  IN  entries[last]

MapHas(entries, name) == \E i \in 1..Len(entries) : Get(entries[i], "name") = name

\* schema.js 209-213
UpdatedEntry(name, oldApp, newApp) ==
  Obj([k \in {"name", "oldVersion", "newVersion"} |->
        IF k = "name" THEN name
        ELSE IF k = "oldVersion" THEN Get(oldApp, "version")
        ELSE Get(newApp, "version")])

\* schema.js 205-215: the loop over newApps
RECURSIVE NewAppsLoop(_, _, _, _)
NewAppsLoop(keys, oldApps, newApps, acc) ==
  IF keys = <<>> THEN acc
  ELSE LET name == keys[1]
           app  == MapGet(newApps, name)
       IN  NewAppsLoop(Tail(keys), oldApps, newApps,
             IF ~MapHas(oldApps, name)
             THEN [acc EXCEPT !.added = Append(@, app)]
             ELSE IF Get(MapGet(oldApps, name), "version") # Get(app, "version")
             THEN [acc EXCEPT !.updated =
                                Append(@, UpdatedEntry(name, MapGet(oldApps, name), app))]
             ELSE acc)

\* schema.js 217-221: the loop over oldApps
RECURSIVE OldAppsLoop(_, _, _, _)
OldAppsLoop(keys, oldApps, newApps, acc) ==
  IF keys = <<>> THEN acc
  ELSE OldAppsLoop(Tail(keys), oldApps, newApps,
         IF ~MapHas(newApps, keys[1])
         THEN [acc EXCEPT !.removed = Append(@, MapGet(oldApps, keys[1]))]
         ELSE acc)

\* schema.js 201-221: acc is the state of the call, the report so far and
\* whether a TypeError has been raised
CompareApplications(acc, oldSetup0, newSetup0) ==
  LET oldList == Get(oldSetup0, "applications")
      newList == Get(newSetup0, "applications")
  IN  IF acc.threw \/ MapThrows(oldList) \/ MapThrows(newList)
      THEN [acc EXCEPT !.threw = TRUE]
      ELSE LET a1 == NewAppsLoop(MapKeys(newList.a, {}), oldList.a, newList.a,
                                 acc.diff.applications)
               a2 == OldAppsLoop(MapKeys(oldList.a, {}), oldList.a, newList.a, a1)
           IN  [acc EXCEPT !.diff.applications = a2]

\* the reference itself as the key, without its name
PackageKey_Raw(pkg) == pkg

\* schema.js 225 and 229: p.name || p
PackageKey(pkg) == IF Truthy(Get(pkg, "name")) THEN Get(pkg, "name") ELSE pkg

\* schema.js 231 and 238: typeof pkg === 'string' ? pkg : pkg.name
PackageReported(pkg) == IF pkg.t = "string" THEN pkg ELSE Get(pkg, "name")

\* Set.prototype.has (schema.js 230, 237): a key that is a string or another
\* primitive is found by its value; a key that is an object, as p.name || p
\* is for an entry without a name, is found only as the very same object,
\* which it is when the two documents are one (same) and never when they
\* were parsed from two files
IsPrimitive(v) == v.t \notin {"object", "array"}
SetHas(keys, key, same) == key \in keys /\ (same \/ IsPrimitive(key))

\* the absent packages reported with unshift instead of push
PackagesAbsent_Unshift(pkgs, others, same) ==
  LET keys   == {PackageKey(others[i]) : i \in 1..Len(others)}
      absent == SelectSeq(pkgs, LAMBDA p : ~SetHas(keys, PackageKey(p), same))
  IN  [i \in 1..Len(absent) |-> PackageReported(absent[Len(absent) + 1 - i])]

\* schema.js 228-240: the packages of pkgs whose key is not a key of others,
\* in the order of pkgs, each as it is reported
PackagesAbsent(pkgs, others, same) ==
  LET keys   == {PackageKey(others[i]) : i \in 1..Len(others)}
      absent == SelectSeq(pkgs, LAMBDA p : ~SetHas(keys, PackageKey(p), same))
  IN  [i \in 1..Len(absent) |-> PackageReported(absent[i])]

\* comparePackages (schema.js 224-241): every push goes to
\* diff.homebrew[category], which is undefined when category is a manager
comparePackages(acc, oldPkgs, newPkgs, category, same) ==
  IF acc.threw \/ MapThrows(oldPkgs) \/ MapThrows(newPkgs)
  THEN [acc EXCEPT !.threw = TRUE]
  ELSE LET added   == PackagesAbsent(newPkgs.a, oldPkgs.a, same)
           removed == PackagesAbsent(oldPkgs.a, newPkgs.a, same)
       IN  IF category \in DOMAIN acc.diff.homebrew
           THEN [acc EXCEPT !.diff.homebrew[category] =
                              [added |-> @.added \o added, removed |-> @.removed \o removed]]
           ELSE IF added # <<>> \/ removed # <<>>
           THEN [acc EXCEPT !.threw = TRUE]
           ELSE acc

\* schema.js 243-245
CompareHomebrew(acc, oldSetup0, newSetup0, category, same) ==
  LET oldBrew == Get(oldSetup0, "homebrew")
      newBrew == Get(newSetup0, "homebrew")
  IN  IF acc.threw \/ ReadThrows(oldBrew) \/ ReadThrows(newBrew)
      THEN [acc EXCEPT !.threw = TRUE]
      ELSE comparePackages(acc, Get(oldBrew, category), Get(newBrew, category), category,
                           same)

\* schema.js 249-250: setup.globalPackages[manager] || []
OrEmpty(v) == IF Truthy(v) THEN v ELSE Arr(<<>>)

\* schema.js 248-252: one turn of the loop over the managers
CompareManager(acc, oldSetup0, newSetup0, manager, same) ==
  LET oldGlobal == Get(oldSetup0, "globalPackages")
      newGlobal == Get(newSetup0, "globalPackages")
  IN  IF acc.threw \/ ReadThrows(oldGlobal) \/ ReadThrows(newGlobal)
      THEN [acc EXCEPT !.threw = TRUE]
      ELSE comparePackages(acc, OrEmpty(Get(oldGlobal, manager)),
                           OrEmpty(Get(newGlobal, manager)), manager, same)

\* the comparisons in the order diffSetups makes them
DiffOrder == <<"applications", "formulae", "casks", "taps", "npm", "bun", "dart", "ruby">>

Compare(acc, oldSetup0, newSetup0, section, same) ==
  IF section = "applications" THEN CompareApplications(acc, oldSetup0, newSetup0)
  ELSE IF section \in {"formulae", "casks", "taps"}
  THEN CompareHomebrew(acc, oldSetup0, newSetup0, section, same)
  ELSE CompareManager(acc, oldSetup0, newSetup0, section, same)

RECURSIVE DiffLoop(_, _, _, _, _)
DiffLoop(acc, oldSetup0, newSetup0, k, same) ==
  IF k > Len(DiffOrder) THEN acc
  ELSE DiffLoop(Compare(acc, oldSetup0, newSetup0, DiffOrder[k], same),
                oldSetup0, newSetup0, k + 1, same)

\* the body of diffSetups run on a report diff0
DiffFrom(diff0, oldSetup0, newSetup0, same) ==
  LET r == DiffLoop([threw |-> FALSE, diff |-> diff0], oldSetup0, newSetup0, 1, same)
  IN  [threw |-> r.threw, diff |-> IF r.threw THEN EmptyDiff ELSE r.diff,
       oldSetup |-> oldSetup0, newSetup |-> newSetup0]

\* diffSetups replacing the formulae of the new document by their names
diffSetups_InPlace(oldSetup0, newSetup0, same) ==
  LET r        == DiffFrom(EmptyDiff, oldSetup0, newSetup0, same)
      formulae == Get(Get(newSetup0, "homebrew"), "formulae")
  IN  IF r.threw THEN r
      ELSE [r EXCEPT !.newSetup =
              Put(newSetup0, "homebrew",
                  Put(Get(newSetup0, "homebrew"), "formulae",
                      Arr([i \in 1..Len(formulae.a) |-> PackageReported(formulae.a[i])])))]

\* diffSetups (schema.js 181-255): the report starts as the literal of lines
\* 182-198, and nothing is assigned to either document; same is whether the
\* two arguments are one object
diffSetups(oldSetup0, newSetup0, same) == DiffFrom(EmptyDiff, oldSetup0, newSetup0, same)

(***************************************************************************)
(* More of JavaScript, as apply.js uses it.                                *)
(***************************************************************************)
S_undefined == <<"u", "n", "d", "e", "f", "i", "n", "e", "d">>
S_null      == <<"n", "u", "l", "l">>
S_true      == <<"t", "r", "u", "e">>
S_false     == <<"f", "a", "l", "s", "e">>
S_object    == <<"[", "o", "b", "j", "e", "c", "t", " ", "O", "b", "j", "e", "c", "t", "]">>

\* s1 + sep + s2 + ... : Array.prototype.join on character sequences
RECURSIVE Join(_, _)
Join(strs, sep) ==
  IF strs = <<>> THEN <<>>
  ELSE IF Len(strs) = 1 THEN strs[1]
  ELSE strs[1] \o sep \o Join(Tail(strs), sep)

\* the string a value becomes in a template literal or a RegExp test; the
\* numbers of the model are single digits
RECURSIVE ToStr(_)
ToStr(v) ==
  CASE v.t = "undefined" -> S_undefined
    [] v.t = "null"      -> S_null
    [] v.t = "boolean"   -> IF v.b THEN S_true ELSE S_false
    [] v.t = "number"    -> <<ToString(v.n)>>
    [] v.t = "string"    -> v.s
    [] v.t = "array"     -> Join([i \in 1..Len(v.a) |->
                                    IF ReadThrows(v.a[i]) THEN <<>> ELSE ToStr(v.a[i])],
                                 <<",">>)
    [] OTHER             -> S_object

\* the element of an array a join writes: null and undefined give ""
JoinStr(v) == IF ReadThrows(v) THEN <<>> ELSE ToStr(v)

\* v.length of a value that is neither undefined nor null
Length(v) ==
  CASE v.t = "array"  -> Num(Len(v.a))
    [] v.t = "string" -> Num(Len(v.s))
    [] OTHER          -> Get(v, "length")

\* v.length === 0 and v.length > 0
LengthIsZero(v)  == Length(v) = Num(0)
LengthPositive(v) == Length(v).t = "number" /\ Length(v).n > 0

\* for (const x of v) raises on a value that is not iterable
Iterable(v) == v.t \in {"array", "string"}

\* the values a for-of loop over v visits
Elements(v) ==
  IF v.t = "array" THEN v.a
  ELSE [i \in 1..Len(v.s) |-> Str(<<v.s[i]>>)]

\* x.toLowerCase(), x.replace(...), x.join(...) exist on x
IsString(v) == v.t = "string"

Lower  == {"a", "b", "c", "d", "e", "f", "g", "h", "i", "j", "k", "l", "m",
           "n", "o", "p", "q", "r", "s", "t", "u", "v", "w", "x", "y", "z"}
Upper  == {"A", "B", "C", "D", "E", "F", "G", "H", "I", "J", "K", "L", "M",
           "N", "O", "P", "Q", "R", "S", "T", "U", "V", "W", "X", "Y", "Z"}
Digits == {"0", "1", "2", "3", "4", "5", "6", "7", "8", "9"}

\* /^[a-zA-Z0-9\-_\/]+$/ (apply.js 32)
TapChars == Lower \cup Upper \cup Digits \cup {"-", "_", "/"}
TapPattern(str) == str # <<>> /\ \A i \in 1..Len(str) : str[i] \in TapChars

\* the characters SECURITY.md 20-22 allows in a package name
PackageChars == Lower \cup Upper \cup Digits \cup {"-", "_", "/", "@", "."}
PackagePattern(str) == str # <<>> /\ \A i \in 1..Len(str) : str[i] \in PackageChars


\* an executed command: the program and fixed words, then the text built
\* from the document
Cmd(c, text) == [cmd |-> c, text |-> text, ok |-> TRUE]

\* an executed command with its outcome: ok is whether it exited with 0
Exec(c, text, ok) == [cmd |-> c, text |-> text, ok |-> ok]

\* exec of utils/exec.js: a failing command raises unless the caller passed
\* ignoreError
ExecThrows(ok, ignoreError) == ~ok /\ ~ignoreError

\* result of a function of apply.js: whether it raised, and the commands it
\* executed before returning or raising
Ran(cmds)    == [threw |-> FALSE, cmds |-> cmds]
Raised(cmds) == [threw |-> TRUE,  cmds |-> cmds]

(***************************************************************************)
(* The installers of apply.js.                                             *)
(***************************************************************************)
\* apply.js 30: typeof tap === 'string' ? tap : tap.name
TapName(tap) == IF tap.t = "string" THEN tap ELSE Get(tap, "name")

\* installTaps ignoring the dry-run flag
installTaps_NoDryRun(taps, dryRun) ==
  IF LengthIsZero(taps) THEN Ran(<<>>)
  ELSE IF \E i \in 1..Len(taps.a) : ReadThrows(taps.a[i]) THEN Raised(<<>>)
  ELSE LET names    == [i \in 1..Len(taps.a) |-> ToStr(TapName(taps.a[i]))]
           safeTaps == SelectSeq(names, TapPattern)
       IN  Ran([i \in 1..Len(safeTaps) |-> Cmd("brew tap", safeTaps[i])])

\* installTaps (apply.js 23-44); taps is an array once validation passed
installTaps(taps, dryRun) ==
  IF LengthIsZero(taps) THEN Ran(<<>>)
  ELSE IF \E i \in 1..Len(taps.a) : ReadThrows(taps.a[i]) THEN Raised(<<>>)
  ELSE LET names    == [i \in 1..Len(taps.a) |-> ToStr(TapName(taps.a[i]))]
           safeTaps == SelectSeq(names, TapPattern)
       IN  IF dryRun THEN Ran(<<>>)
           ELSE Ran([i \in 1..Len(safeTaps) |-> Cmd("brew tap", safeTaps[i])])

\* sanitizePackages of utils/exec.js, as SECURITY.md 18-23 describes it: the
\* names (a bare string or the name of an object) that match the pattern,
\* the others being filtered out
PackageName(pkg) == IF pkg.t = "string" THEN pkg ELSE Get(pkg, "name")
SafeName(v) == IsString(v) /\ PackagePattern(v.s)
sanitizePackages(pkgs) ==
  LET names == [i \in 1..Len(pkgs) |->
                  IF ReadThrows(pkgs[i]) THEN Undefined ELSE PackageName(pkgs[i])]
      safe  == SelectSeq(names, SafeName)
  IN  [i \in 1..Len(safe) |-> safe[i].s]

\* apply.js 60 and 95
FORMULA_BATCH_SIZE == 50
CASK_BATCH_SIZE    == 30

\* apply.js 61-64: the slices safeNames.slice(i, i + size) for i = 0, size, ...
RECURSIVE Batches(_, _)
Batches(names, size) ==
  IF names = <<>> THEN <<>>
  ELSE IF Len(names) <= size THEN <<names>>
  ELSE <<SubSeq(names, 1, size)>> \o Batches(SubSeq(names, size + 1, Len(names)), size)

\* the most batches a document of the model gives rise to
MaxBatches == 2
Outcomes == [1..MaxBatches -> BOOLEAN]

\* apply.js 71-76 and 106-111: one exec per batch, with ignoreError;
\* outcomes[i] is whether the command of batch i succeeds
RECURSIVE InstallLoop(_, _, _, _, _, _)
InstallLoop(c, batches, i, outcomes, ignoreError, cmds) ==
  IF i > Len(batches) THEN Ran(cmds)
  ELSE LET done == Append(cmds, Exec(c, Join(batches[i], <<" ">>), outcomes[i]))
       IN  IF ExecThrows(outcomes[i], ignoreError) THEN Raised(done)
           ELSE InstallLoop(c, batches, i + 1, outcomes, ignoreError, done)

\* installFormulae stopping at the first command that fails
installFormulae_StopOnFailure(formulae, dryRun, outcomes) ==
  IF LengthIsZero(formulae) THEN Ran(<<>>)
  ELSE LET safeNames == sanitizePackages(formulae.a)
           batches   == Batches(safeNames, FORMULA_BATCH_SIZE)
       IN  IF safeNames = <<>> \/ dryRun THEN Ran(<<>>)
           ELSE Ran(InstallLoop("brew install", batches, 1, outcomes, FALSE, <<>>).cmds)

\* installFormulae (apply.js 46-79)
installFormulae(formulae, dryRun, outcomes) ==
  IF LengthIsZero(formulae) THEN Ran(<<>>)
  ELSE LET safeNames == sanitizePackages(formulae.a)
           batches   == Batches(safeNames, FORMULA_BATCH_SIZE)
       IN  IF safeNames = <<>> \/ dryRun THEN Ran(<<>>)
           ELSE InstallLoop("brew install", batches, 1, outcomes, TRUE, <<>>)

\* installCasks (apply.js 81-114)
installCasks(casks, dryRun, outcomes) ==
  IF LengthIsZero(casks) THEN Ran(<<>>)
  ELSE LET safeNames == sanitizePackages(casks.a)
           batches   == Batches(safeNames, CASK_BATCH_SIZE)
       IN  IF safeNames = <<>> \/ dryRun THEN Ran(<<>>)
           ELSE InstallLoop("brew install --cask", batches, 1, outcomes, TRUE, <<>>)

\* installMasApps (utils/mas.js 50-84); masInstalled is the outcome of
\* `which mas`, which the function runs first.  Each turn of the loop reads
\* app.name before anything else.
RECURSIVE MasLoop(_, _, _, _)
MasLoop(apps, i, dryRun, cmds) ==
  IF i > Len(apps) THEN Ran(cmds)
  ELSE IF ReadThrows(apps[i]) THEN Raised(cmds)
  ELSE MasLoop(apps, i + 1, dryRun,
         IF dryRun THEN cmds
         ELSE Append(cmds, Cmd("mas install", ToStr(Get(apps[i], "id")))))

installMasApps(apps, dryRun, masInstalled) ==
  IF ~masInstalled THEN Ran(<<Cmd("which mas", <<>>)>>)
  ELSE IF ~Iterable(apps) THEN Raised(<<Cmd("which mas", <<>>)>>)
  ELSE MasLoop(Elements(apps), 1, dryRun, <<Cmd("which mas", <<>>)>>)

\* verifyInstallations (apply.js 673-705): the first ten formulae and the
\* first ten casks are looked up with brew list, a failing lookup being
\* caught and counted
VERIFY_LIMIT == 10

Slice(seq, n) == SubSeq(seq, 1, IF Len(seq) < n THEN Len(seq) ELSE n)

verifyInstallations(setup) ==
  LET formulae == Slice(Get(Get(setup, "homebrew"), "formulae").a, VERIFY_LIMIT)
      casks    == Slice(Get(Get(setup, "homebrew"), "casks").a, VERIFY_LIMIT)
  IN  Ran([i \in 1..Len(formulae) |->
             Cmd("brew list", ToStr(Get(formulae[i], "name")))]
          \o [i \in 1..Len(casks) |->
             Cmd("brew list --cask", ToStr(Get(casks[i], "name")))])

(***************************************************************************)
(* The reports of apply.js.  Only reportGlobalPackages executes commands;  *)
(* of the others the model keeps whether the call returns or raises a      *)
(* TypeError, since their output is printed and nothing else.              *)
(***************************************************************************)
\* an element of a callback or loop body that reads a property of it
AnyElementThrows(v) == \E i \in 1..Len(Elements(v)) : ReadThrows(Elements(v)[i])

\* reportManualInstalls (apply.js 116-142)
reportManualInstallsThrows(applications, casks) ==
  \/ \E i \in 1..Len(casks.a) :
       ReadThrows(casks.a[i]) \/ ~IsString(Get(casks.a[i], "name"))
  \/ ~Iterable(applications)
  \/ \E i \in 1..Len(Elements(applications)) :
       \/ ReadThrows(Elements(applications)[i])
       \/ ~IsString(Get(Elements(applications)[i], "name"))

\* reportHomeBin (apply.js 144-181) and reportGithubRepos (apply.js 183-219):
\* past the guard the list is filtered with a callback reading each element
reportListThrows(list) ==
  /\ Truthy(list)
  /\ ~LengthIsZero(list)
  /\ ~IsArray(list) \/ AnyElementThrows(list)

\* reportShellConfigs (apply.js 317-333)
reportShellConfigsThrows(shellConfigs) ==
  /\ Truthy(shellConfigs)
  /\ ~LengthIsZero(shellConfigs)
  /\ ~Iterable(shellConfigs) \/ AnyElementThrows(shellConfigs)

\* reportGitConfig (apply.js 335-358)
reportGitConfigThrows(gitConfig) ==
  /\ Truthy(gitConfig)
  /\ ReadThrows(Get(gitConfig, "user")) \/ ReadThrows(Get(gitConfig, "settings"))

\* reportVersionManagers (apply.js 360-395)
reportVersionManagersThrows(versionManagers) ==
  LET nvm   == Get(versionManagers, "nvm")
      pyenv == Get(versionManagers, "pyenv")
      rbenv == Get(versionManagers, "rbenv")
      installed(m)   == Truthy(Get(m, "installed"))
      blockThrows(m) == ReadThrows(m) \/ (installed(m) /\ ~IsArray(Get(m, "versions")))
  IN  /\ Truthy(versionManagers)
      /\ \/ ReadThrows(nvm)
         \/ ~installed(nvm) /\ ReadThrows(pyenv)
         \/ ~installed(nvm) /\ ~installed(pyenv) /\ ReadThrows(rbenv)
         \/ /\ installed(nvm) \/ installed(pyenv) \/ installed(rbenv)
            /\ blockThrows(nvm) \/ blockThrows(pyenv) \/ blockThrows(rbenv)

\* reportMenubarConfig (apply.js 459-517)
reportMenubarConfigThrows(menubarConfig) ==
  LET loginItems   == Get(menubarConfig, "loginItems")
      runningApps  == Get(menubarConfig, "runningApps")
      launchAgents == Get(menubarConfig, "launchAgents")
  IN  /\ Truthy(menubarConfig)
      /\ \/ ReadThrows(loginItems)
         \/ LengthPositive(loginItems) /\ ~Iterable(loginItems)
         \/ ReadThrows(runningApps)
         \/ LengthPositive(runningApps) /\ ~Iterable(runningApps)
         \/ ReadThrows(launchAgents)
         \/ /\ LengthPositive(launchAgents)
            /\ ~IsArray(launchAgents) \/ AnyElementThrows(launchAgents)

\* apply.js 227: a.length === 0 && b.length === 0 && ... , read from the
\* left and stopping at the first length that is not 0
RECURSIVE AllEmpty(_)
AllEmpty(lists) ==
  IF lists = <<>> THEN [threw |-> FALSE, ret |-> TRUE]
  ELSE IF ReadThrows(lists[1]) THEN [threw |-> TRUE, ret |-> FALSE]
  ELSE IF ~LengthIsZero(lists[1]) THEN [threw |-> FALSE, ret |-> FALSE]
  ELSE AllEmpty(Tail(lists))

\* apply.js 658-659: a.length > 0 || b.length > 0 || ... , read from the
\* left and stopping at the first length that is positive
RECURSIVE AnyPositive(_)
AnyPositive(lists) ==
  IF lists = <<>> THEN [threw |-> FALSE, ret |-> FALSE]
  ELSE IF ReadThrows(lists[1]) THEN [threw |-> TRUE, ret |-> FALSE]
  ELSE IF LengthPositive(lists[1]) THEN [threw |-> FALSE, ret |-> TRUE]
  ELSE AnyPositive(Tail(lists))

\* the command of one package manager
ManagerCommand == [npm  |-> "npm install -g",  bun  |-> "bun install -g",
                   dart |-> "dart pub global activate", ruby |-> "gem install"]
ManagerOrder == <<"npm", "bun", "dart", "ruby">>

\* the install commands of one manager's block: one command with the names
\* joined by spaces, for dart one command per package
ManagerCmds(manager, pkgs) ==
  IF manager = "dart"
  THEN [i \in 1..Len(pkgs) |-> Cmd(ManagerCommand[manager], ToStr(Get(pkgs[i], "name")))]
  ELSE <<Cmd(ManagerCommand[manager],
             Join([i \in 1..Len(pkgs) |-> JoinStr(Get(pkgs[i], "name"))], <<" ">>))>>

\* apply.js 235-311: the four blocks in turn; a block runs when its list has
\* a positive length, lists every package and then installs when install is
\* set and dryRun is not
RECURSIVE ManagerBlocks(_, _, _, _, _)
ManagerBlocks(lists, k, install, dryRun, cmds) ==
  IF k > Len(ManagerOrder) THEN Ran(cmds)
  ELSE LET list == lists[ManagerOrder[k]] IN
       IF ReadThrows(list) THEN Raised(cmds)
       ELSE IF ~LengthPositive(list) THEN ManagerBlocks(lists, k + 1, install, dryRun, cmds)
       ELSE IF ~Iterable(list) \/ AnyElementThrows(list) THEN Raised(cmds)
       ELSE ManagerBlocks(lists, k + 1, install, dryRun,
              IF install /\ ~dryRun
              THEN cmds \o ManagerCmds(ManagerOrder[k], Elements(list))
              ELSE cmds)

\* reportGlobalPackages (apply.js 221-315)
reportGlobalPackages(globalPackages, install, dryRun) ==
  IF ~Truthy(globalPackages) THEN Ran(<<>>)
  ELSE LET lists == [m \in {"npm", "bun", "dart", "ruby"} |->
                       IF Get(globalPackages, m) = Undefined THEN Arr(<<>>)
                       ELSE Get(globalPackages, m)]
           empty == AllEmpty([k \in 1..Len(ManagerOrder) |-> lists[ManagerOrder[k]]])
       IN  IF empty.threw THEN Raised(<<>>)
           ELSE IF empty.ret THEN Ran(<<>>)
           ELSE ManagerBlocks(lists, 1, install, dryRun, <<>>)

\* apply.js 657-659: the test choosing the closing list of next steps
closingTestThrows(globalPackages, installGlobalPackages) ==
  /\ ~installGlobalPackages
  /\ Truthy(globalPackages)
  /\ AnyPositive([k \in 1..Len(ManagerOrder) |-> Get(globalPackages, ManagerOrder[k])]).threw

(***************************************************************************)
(* The documents the functions are applied to.  A document is what         *)
(* JSON.parse returns for a file (apply.js 565-571): the file is taken to  *)
(* be a capture, the factory document, changed in at most MaxEdits places. *)
(* Overrides lists, per place, the values tried there (Undefined: the file *)
(* omits the key); Entries lists the elements appended to the homebrew     *)
(* collections.                                                            *)
(***************************************************************************)
NamedGit  == Obj([k \in {"name"} |-> Str(S_git)])
NamedNone == Obj([k \in {"name"} |-> Str(S_empty)])
PipOnly   == Obj([k \in {"pip"} |-> Str(S_abc)])

Overrides ==
  {<<"version">>} \X {Undefined, Num(2), Str(S_empty), Str(S_10), Str(S_21),
                      Str(S_30), Str(S_2), Str(S_210)}
  \cup {<<"system">>} \X {Undefined, Null, Str(S_abc), Obj(<<>>)}
  \cup {<<"system", "hostname">>} \X {Undefined, Str(S_empty)}
  \cup {<<"system", "macosVersion">>} \X {Undefined}
  \cup {<<"system", "captureDate">>} \X {Undefined}
  \cup {<<"homebrew">>} \X {Undefined, Num(0), Str(S_abc)}
  \cup {<<"homebrew", "taps">>} \X {Undefined, Obj(<<>>)}
  \cup {<<"homebrew", "casks">>} \X {Str(S_abc)}
  \cup {<<"homebrew", "formulae">>} \X {Undefined}
  \cup {<<"applications">>} \X {Undefined, Num(0), Str(S_empty), Bool(FALSE),
                                Str(S_abc), Obj(<<>>)}
  \cup {<<"globalPackages">>} \X {Undefined, Str(S_abc), Num(5), PipOnly}
  \cup {<<"globalPackages", "npm">>} \X {Undefined, Str(S_abc)}
  \cup {<<"globalPackages", "bun">>} \X {Obj(<<>>)}
  \cup {<<"globalPackages", "dart">>} \X {Num(1)}
  \cup {<<"globalPackages", "ruby">>} \X {Num(0)}
  \cup {<<"shellConfigs">>} \X {Num(0), Str(S_abc)}
  \cup {<<"gitConfig">>} \X {Undefined, Str(S_abc)}
  \cup {<<"gitConfig", "user">>} \X {Str(S_abc)}
  \cup {<<"gitConfig", "settings">>} \X {Str(S_empty), Num(7), Obj(<<>>)}
  \cup {<<"githubRepos">>} \X {Str(S_empty), Obj(<<>>)}

Entries ==
  {<<"homebrew", "casks">>} \X {Null, Str(S_git), NamedGit, NamedNone}
  \cup {<<"homebrew", "formulae">>} \X {Null, NamedGit, Obj(<<>>)}
  \cup {<<"homebrew", "taps">>} \X {Str(S_abc)}

\* the document with the value at the path replaced by v, or the key left
\* out when v is Undefined
SetKey(obj, k, v) == IF v = Undefined THEN Del(obj, k) ELSE Put(obj, k, v)

SetAt(doc, path, v) ==
  IF Len(path) = 1 THEN SetKey(doc, path[1], v)
  ELSE Put(doc, path[1], SetKey(Get(doc, path[1]), path[2], v))

\* the value at a path of one or two keys
GetAt(doc, path) ==
  IF Len(path) = 1 THEN Get(doc, path[1]) ELSE Get(Get(doc, path[1]), path[2])

(***************************************************************************)
(* State.                                                                  *)
(***************************************************************************)
VARIABLES
  setup,       \* the document object the functions are called on
  edits,       \* in how many places the file differs from a fresh capture
  pc,          \* "file": the file is being written; "calls": the schema
               \* functions are being called on the parsed document;
               \* otherwise the position of apply's main
  entry,       \* the document as it was on entry to the last validateSetup
  validation,  \* outcome of the last validateSetup call
  calls,       \* the calls made so far on the document, with their outcome
  warned,      \* apply printed the version warning (apply.js 585-586)
  exitCode,    \* status apply exited with, -1 while it has not exited
  flags,       \* the options apply was started with
  cmds,        \* the commands apply has executed, in order
  trail,       \* the steps of apply's main entered so far, in order
  oldSetup,    \* first document given to diffSetups
  newSetup,    \* second document given to diffSetups
  reports,     \* outcome of every diffSetups call made so far
  home,        \* the shell configuration files of $HOME, name to content
  warnings,    \* the files capture warned about, in order
  written      \* the document capture wrote to mac-setup.json, if any

vars == <<setup, edits, pc, entry, validation, calls, warned, exitCode,
          flags, cmds, trail, oldSetup, newSetup, reports, home, warnings, written>>

applyVars   == <<flags, cmds, trail>>
diffVars    == <<oldSetup, newSetup, reports>>
captureVars == <<home, warnings, written>>

NoFlags == [dryRun |-> FALSE, installMas |-> FALSE,
            installGlobalPackages |-> FALSE, verify |-> FALSE]

NoValidation == [called |-> FALSE, threw |-> FALSE, valid |-> FALSE, errors |-> <<>>]

Init ==
  /\ \E date \in IsoDates : setup = createEmptySetup(date)
  /\ edits = 0
  /\ pc = "file"
  /\ entry = Undefined
  /\ validation = NoValidation
  /\ calls = <<>>
  /\ warned = FALSE
  /\ exitCode = -1
  /\ flags = NoFlags
  /\ cmds = <<>>
  /\ trail = <<>>
  /\ oldSetup = Undefined
  /\ newSetup = Undefined
  /\ reports = <<>>
  /\ home = <<>>
  /\ warnings = <<>>
  /\ written = Undefined

\* the file differs from the capture in one more place: a key is given
\* another value or is left out
OverrideField ==
  /\ pc = "file"
  /\ edits < MaxEdits
  /\ \E e \in Overrides :
       /\ Len(e[1]) = 2 => Get(setup, e[1][1]).t = "object"
       /\ setup' = SetAt(setup, e[1], e[2])
       /\ setup' # setup
  /\ edits' = edits + 1
  /\ UNCHANGED <<captureVars, pc, entry, validation, calls, warned, exitCode, applyVars, diffVars>>

\* the file lists one more element in a homebrew collection
AppendEntry ==
  /\ pc = "file"
  /\ edits < MaxEdits
  /\ \E e \in Entries :
       /\ IsArray(GetAt(setup, e[1]))
       /\ setup' = SetAt(setup, e[1], Arr(Append(GetAt(setup, e[1]).a, e[2])))
  /\ edits' = edits + 1
  /\ UNCHANGED <<captureVars, pc, entry, validation, calls, warned, exitCode, applyVars, diffVars>>

\* a caller of the module calls validateSetup(setup)
CallValidateSetup ==
  /\ pc \in {"file", "calls"}
  /\ Len(calls) < MaxCalls
  /\ LET r == validateSetup(setup) IN
       /\ setup' = r.setup
       /\ validation' = [called |-> TRUE, threw |-> r.threw,
                         valid |-> r.valid, errors |-> r.errors]
       /\ calls' = Append(calls, [op |-> "validateSetup", threw |-> r.threw,
                                  ret |-> r.valid])
  /\ entry' = setup
  /\ pc' = "calls"
  /\ UNCHANGED <<captureVars, edits, warned, exitCode, applyVars, diffVars>>

\* a caller of the module calls isCompatibleVersion(setup)
CallIsCompatibleVersion ==
  /\ pc \in {"file", "calls"}
  /\ Len(calls) < MaxCalls
  /\ LET r == isCompatibleVersion(setup) IN
       calls' = Append(calls, [op |-> "isCompatibleVersion", threw |-> r.threw,
                               ret |-> r.ret])
  /\ pc' = "calls"
  /\ UNCHANGED <<captureVars, setup, edits, entry, validation, warned, exitCode, applyVars, diffVars>>

(***************************************************************************)
(* apply.js main, from the parsed document on.                             *)
(***************************************************************************)
\* validation reporting the errors without ending the run
MainValidate_NoExit ==
  /\ pc \in {"file", "args"}
  /\ LET r == validateSetup(setup) IN
       /\ setup' = r.setup
       /\ validation' = [called |-> TRUE, threw |-> r.threw,
                         valid |-> r.valid, errors |-> r.errors]
       /\ pc' = IF r.threw THEN "crashed" ELSE "validated"
       /\ exitCode' = IF r.threw THEN 1 ELSE -1
  /\ entry' = setup
  /\ trail' = Append(trail, "validate")
  /\ UNCHANGED <<captureVars, edits, calls, warned, flags, cmds, diffVars>>

\* apply.js 574-581: validate; an invalid document ends the run with
\* status 1; a TypeError out of validateSetup is not caught anywhere and
\* ends the process with status 1 as well
MainValidate ==
  /\ pc \in {"file", "args"}
  /\ LET r == validateSetup(setup) IN
       /\ setup' = r.setup
       /\ validation' = [called |-> TRUE, threw |-> r.threw,
                         valid |-> r.valid, errors |-> r.errors]
       /\ pc' = IF r.threw THEN "crashed" ELSE IF r.valid THEN "validated" ELSE "exited"
       /\ exitCode' = IF r.threw \/ ~r.valid THEN 1 ELSE -1
  /\ entry' = setup
  /\ trail' = Append(trail, "validate")
  /\ UNCHANGED <<captureVars, edits, calls, warned, flags, cmds, diffVars>>

\* the version check ending the run on an incompatible version
MainCheckVersion_Exit ==
  /\ pc = "validated"
  /\ LET r == isCompatibleVersion(setup) IN
       /\ warned' = (~r.threw /\ ~r.ret)
       /\ pc' = IF r.threw THEN "crashed" ELSE IF r.ret THEN "banner" ELSE "exited"
       /\ exitCode' = IF r.threw \/ ~r.ret THEN 1 ELSE -1
  /\ trail' = Append(trail, "version")
  /\ UNCHANGED <<captureVars, setup, edits, entry, validation, calls, flags, cmds, diffVars>>

\* apply.js 584-587: the version check, a warning only
MainCheckVersion ==
  /\ pc = "validated"
  /\ LET r == isCompatibleVersion(setup) IN
       /\ warned' = (~r.threw /\ ~r.ret)
       /\ pc' = IF r.threw THEN "crashed" ELSE "banner"
       /\ exitCode' = IF r.threw THEN 1 ELSE -1
  /\ trail' = Append(trail, "version")
  /\ UNCHANGED <<captureVars, setup, edits, entry, validation, calls, flags, cmds, diffVars>>

Next ==
  \/ OverrideField
  \/ AppendEntry
  \/ CallValidateSetup
  \/ CallIsCompatibleVersion
  \/ MainValidate
  \/ MainCheckVersion

Spec == Init /\ [][Next]_vars

(***************************************************************************)
(* The rest of apply.js main: the options, and the steps after the version *)
(* check.  An uncaught TypeError ends the process with status 1.           *)
(***************************************************************************)
\* a name with a shell metacharacter
S_bad == <<"a", ";", "b">>

Package(name, version) ==
  Obj([k \in {"name", "version"} |-> IF k = "name" THEN Str(name) ELSE Str(version)])

CapturedApp ==
  Obj([k \in {"name", "version", "bundleId"} |->
        IF k = "name" THEN Str(S_abc)
        ELSE IF k = "version" THEN Str(S_10) ELSE Str(S_unknown)])

CapturedMasApp ==
  Obj([k \in {"id", "name"} |-> IF k = "id" THEN Num(5) ELSE Str(S_abc)])

\* a captured setup with applications and Homebrew packages
InstalledSetup(date) ==
  LET d0 == createEmptySetup(date)
      d1 == SetAt(d0, <<"homebrew", "taps">>, Arr(<<Str(S_abc)>>))
      d2 == SetAt(d1, <<"homebrew", "formulae">>, Arr(<<Package(S_git, S_2)>>))
      d3 == SetAt(d2, <<"homebrew", "casks">>, Arr(<<NamedGit>>))
  IN  SetAt(d3, <<"applications">>, Arr(<<CapturedApp>>))

\* and with Mac App Store apps and global packages as well
CapturedSetup(date) ==
  LET d5 == SetAt(InstalledSetup(date), <<"masApps">>, Arr(<<CapturedMasApp>>))
      d6 == SetAt(d5, <<"globalPackages", "npm">>, Arr(<<Package(S_abc, S_2)>>))
  IN  SetAt(d6, <<"globalPackages", "dart">>, Arr(<<Package(S_git, S_10)>>))

\* a capture of a machine with more formulae and casks than one batch
\* holds (apply.js 60, 95) and than verifyInstallations looks up (apply.js
\* 680, 691): a full batch and one more of each, every package with a name
\* of its own
DigitSeq == <<"0", "1", "2", "3", "4", "5", "6", "7", "8", "9">>
Numbered(letter, i) ==
  <<letter, DigitSeq[(i \div 100) + 1], DigitSeq[((i \div 10) % 10) + 1], DigitSeq[(i % 10) + 1]>>
LargeSetup(date) ==
  LET d0 == SetAt(InstalledSetup(date), <<"homebrew", "formulae">>,
                  Arr([i \in 1..(FORMULA_BATCH_SIZE + 1) |->
                         Package(Numbered("f", i), S_10)]))
  IN  SetAt(d0, <<"homebrew", "casks">>,
            Arr([i \in 1..(CASK_BATCH_SIZE + 1) |-> Package(Numbered("c", i), S_10)]))

\* the places where the file given to apply differs from such a capture
ApplyOverrides ==
  {<<"version">>} \X {Undefined, Str(S_10), Str(S_30)}
  \cup {<<"applications">>} \X {Undefined}
  \cup {<<"homebrew", "taps">>} \X {Undefined}
  \cup {<<"globalPackages">>} \X {Undefined}
  \cup {<<"globalPackages", "ruby">>} \X {Undefined}
  \cup {<<"gitConfig", "user">>} \X {Undefined}

ApplyEntries ==
  {<<"homebrew", "casks">>} \X {Null, Obj(<<>>)}
  \cup {<<"homebrew", "taps">>} \X {Null, Str(S_bad)}
  \cup {<<"homebrew", "formulae">>} \X {Package(S_bad, S_2)}
  \cup {<<"globalPackages", "npm">>} \X {Package(S_bad, S_2)}

MaxApplyEdits == 1

InitApply ==
  /\ \E date \in IsoDates :
       setup \in {createEmptySetup(date), CapturedSetup(date), LargeSetup(date)}
  /\ edits = 0
  /\ pc = "file"
  /\ entry = Undefined
  /\ validation = NoValidation
  /\ calls = <<>>
  /\ warned = FALSE
  /\ exitCode = -1
  /\ flags = NoFlags
  /\ cmds = <<>>
  /\ trail = <<>>
  /\ oldSetup = Undefined
  /\ newSetup = Undefined
  /\ reports = <<>>
  /\ home = <<>>
  /\ warnings = <<>>
  /\ written = Undefined

\* the file given to apply differs from the capture in one more place
EditFile ==
  /\ pc = "file"
  /\ edits < MaxApplyEdits
  /\ \/ \E e \in ApplyOverrides :
          /\ Len(e[1]) = 2 => Get(setup, e[1][1]).t = "object"
          /\ setup' = SetAt(setup, e[1], e[2])
          /\ setup' # setup
     \/ \E e \in ApplyEntries :
          /\ IsArray(GetAt(setup, e[1]))
          /\ setup' = SetAt(setup, e[1], Arr(Append(GetAt(setup, e[1]).a, e[2])))
  /\ edits' = edits + 1
  /\ UNCHANGED <<captureVars, pc, entry, validation, calls, warned, exitCode, applyVars, diffVars>>

\* apply.js 528-551: the options; --help prints the usage and exits with 0
MainParseArgs ==
  /\ pc = "file"
  /\ \/ /\ flags' \in [dryRun : BOOLEAN, installMas : BOOLEAN,
                       installGlobalPackages : BOOLEAN, verify : BOOLEAN]
        /\ pc' = "args"
        /\ exitCode' = -1
     \/ /\ flags' = flags
        /\ pc' = "exited"
        /\ exitCode' = 0
  /\ UNCHANGED <<captureVars, setup, edits, entry, validation, calls, warned, cmds, trail, diffVars>>

\* what a step of main after validation leaves behind: r is the outcome of
\* the function the step calls
StepDone(name, r, next) ==
  /\ trail' = Append(trail, name)
  /\ cmds' = cmds \o r.cmds
  /\ pc' = IF r.threw THEN "crashed" ELSE next
  /\ exitCode' = IF r.threw THEN 1 ELSE -1
  /\ UNCHANGED <<captureVars, setup, edits, entry, validation, calls, warned, flags, diffVars>>

\* apply.js 589-602: the banner
MainBanner ==
  /\ pc = "banner"
  /\ StepDone("banner", Ran(<<>>), "homebrew")

\* apply.js 604-606 with checkHomebrew (apply.js 9-21): unless this is a dry
\* run, `which brew` is executed and the run ends with status 1 when brew is
\* not found
MainCheckHomebrew ==
  /\ pc = "homebrew"
  /\ trail' = Append(trail, "homebrew")
  /\ IF flags.dryRun
     THEN /\ cmds' = cmds
          /\ pc' = "taps"
          /\ exitCode' = -1
     ELSE \E found \in BOOLEAN :
          /\ cmds' = Append(cmds, Cmd("which brew", <<>>))
          /\ pc' = IF found THEN "taps" ELSE "exited"
          /\ exitCode' = IF found THEN -1 ELSE 1
  /\ UNCHANGED <<captureVars, setup, edits, entry, validation, calls, warned, flags, diffVars>>

\* apply.js 610
MainInstallTaps ==
  /\ pc = "taps"
  /\ StepDone("taps", installTaps(Get(Get(setup, "homebrew"), "taps"), flags.dryRun),
              "formulae")

\* apply.js 611
MainInstallFormulae ==
  /\ pc = "formulae"
  /\ \E outcomes \in Outcomes :
       StepDone("formulae",
                installFormulae(Get(Get(setup, "homebrew"), "formulae"), flags.dryRun,
                                outcomes),
                "casks")

\* apply.js 612
MainInstallCasks ==
  /\ pc = "casks"
  /\ \E outcomes \in Outcomes :
       StepDone("casks",
                installCasks(Get(Get(setup, "homebrew"), "casks"), flags.dryRun, outcomes),
                "mas")

\* apply.js 615-626: the Mac App Store apps, installed only with --install-mas
MainInstallMas ==
  /\ pc = "mas"
  /\ LET masApps == Get(setup, "masApps") IN
       IF Truthy(masApps) /\ LengthPositive(masApps) /\ flags.installMas
       THEN \E masInstalled \in BOOLEAN :
              StepDone("mas", installMasApps(masApps, flags.dryRun, masInstalled), "verify")
       ELSE StepDone("mas", Ran(<<>>), "verify")

\* apply.js 629-632: verification, only with --verify and never in a dry run
MainVerify ==
  /\ pc = "verify"
  /\ IF flags.verify /\ ~flags.dryRun
     THEN StepDone("verify", verifyInstallations(setup), "manual")
     ELSE StepDone("verify", Ran(<<>>), "manual")

\* the outcome of a report that executes nothing
Report(throws) == IF throws THEN Raised(<<>>) ELSE Ran(<<>>)

\* apply.js 634
MainReportManualInstalls ==
  /\ pc = "manual"
  /\ StepDone("manual",
              Report(reportManualInstallsThrows(Get(setup, "applications"),
                                                Get(Get(setup, "homebrew"), "casks"))),
              "homeBin")

\* apply.js 635
MainReportHomeBin ==
  /\ pc = "homeBin"
  /\ StepDone("homeBin", Report(reportListThrows(Get(setup, "homeBin"))), "github")

\* apply.js 636
MainReportGithubRepos ==
  /\ pc = "github"
  /\ StepDone("github", Report(reportListThrows(Get(setup, "githubRepos"))), "global")

\* apply.js 637
MainReportGlobalPackages ==
  /\ pc = "global"
  /\ StepDone("global",
              reportGlobalPackages(Get(setup, "globalPackages"),
                                   flags.installGlobalPackages /\ ~flags.dryRun,
                                   flags.dryRun),
              "shell")

\* apply.js 638
MainReportShellConfigs ==
  /\ pc = "shell"
  /\ StepDone("shell", Report(reportShellConfigsThrows(Get(setup, "shellConfigs"))), "git")

\* apply.js 639
MainReportGitConfig ==
  /\ pc = "git"
  /\ StepDone("git", Report(reportGitConfigThrows(Get(setup, "gitConfig"))),
              "versionManagers")

\* apply.js 640
MainReportVersionManagers ==
  /\ pc = "versionManagers"
  /\ StepDone("versionManagers",
              Report(reportVersionManagersThrows(Get(setup, "versionManagers"))),
              "menubar")

\* apply.js 641
MainReportMenubarConfig ==
  /\ pc = "menubar"
  /\ StepDone("menubar", Report(reportMenubarConfigThrows(Get(setup, "menubarConfig"))),
              "finish")

\* apply.js 643-670: the closing messages; main returns and the process
\* ends with status 0
MainFinish ==
  /\ pc = "finish"
  /\ trail' = Append(trail, "finish")
  /\ LET threw == closingTestThrows(Get(setup, "globalPackages"),
                                    flags.installGlobalPackages) IN
       /\ pc' = IF threw THEN "crashed" ELSE "done"
       /\ exitCode' = IF threw THEN 1 ELSE 0
  /\ UNCHANGED <<captureVars, setup, edits, entry, validation, calls, warned, flags, cmds, diffVars>>

NextApply ==
  \/ EditFile
  \/ MainParseArgs
  \/ MainValidate
  \/ MainCheckVersion
  \/ MainBanner
  \/ MainCheckHomebrew
  \/ MainInstallTaps
  \/ MainInstallFormulae
  \/ MainInstallCasks
  \/ MainInstallMas
  \/ MainVerify
  \/ MainReportManualInstalls
  \/ MainReportHomeBin
  \/ MainReportGithubRepos
  \/ MainReportGlobalPackages
  \/ MainReportShellConfigs
  \/ MainReportGitConfig
  \/ MainReportVersionManagers
  \/ MainReportMenubarConfig
  \/ MainFinish

SpecApply == InitApply /\ [][NextApply]_vars

(***************************************************************************)
(* diffSetups called on two documents, directly and by diff.js main.       *)
(***************************************************************************)
\* the places where one of the two files differs from a capture
DiffOverrides ==
  {<<"applications">>} \X {Undefined}
  \cup {<<"globalPackages">>} \X {Undefined}

DiffEntries ==
  {<<"applications">>} \X {Package(S_abc, S_2), Package(S_git, S_10)}
  \cup {<<"homebrew", "formulae">>} \X {Str(S_git), NamedGit, Str(S_abc)}
  \cup {<<"homebrew", "casks">>} \X {Obj(<<>>)}
  \cup {<<"globalPackages", "npm">>} \X {Package(S_git, S_10)}

MaxDiffEdits == 2
MaxDiffCalls == 2

InitDiff ==
  /\ \E date \in IsoDates :
       /\ oldSetup \in {createEmptySetup(date), InstalledSetup(date)}
       /\ newSetup \in {createEmptySetup(date), InstalledSetup(date)}
  /\ setup = Undefined
  /\ edits = 0
  /\ pc = "files"
  /\ entry = Undefined
  /\ validation = NoValidation
  /\ calls = <<>>
  /\ warned = FALSE
  /\ exitCode = -1
  /\ flags = NoFlags
  /\ cmds = <<>>
  /\ trail = <<>>
  /\ reports = <<>>
  /\ home = <<>>
  /\ warnings = <<>>
  /\ written = Undefined

\* the documents that differ from doc in one more place
DocEdits(doc) ==
  {SetAt(doc, e[1], e[2]) : e \in DiffOverrides}
  \cup {SetAt(doc, e[1], Arr(Append(GetAt(doc, e[1]).a, e[2]))) :
          e \in {x \in DiffEntries : IsArray(GetAt(doc, x[1]))}}

\* the first file differs from the capture in one more place
EditOldSetup ==
  /\ pc = "files"
  /\ edits < MaxDiffEdits
  /\ \E doc1 \in DocEdits(oldSetup) \ {oldSetup} : oldSetup' = doc1
  /\ edits' = edits + 1
  /\ UNCHANGED <<captureVars, setup, pc, entry, validation, calls, warned, exitCode, applyVars,
                 newSetup, reports>>

\* the second file differs from the capture in one more place
EditNewSetup ==
  /\ pc = "files"
  /\ edits < MaxDiffEdits
  /\ \E doc1 \in DocEdits(newSetup) \ {newSetup} : newSetup' = doc1
  /\ edits' = edits + 1
  /\ UNCHANGED <<captureVars, setup, pc, entry, validation, calls, warned, exitCode, applyVars,
                 oldSetup, reports>>

\* what a call diffSetups(a, b) adds to the record of calls
CallRecord(a, b, same) ==
  LET r == diffSetups(a, b, same) IN
    [old |-> a, new |-> b, same |-> same, threw |-> r.threw, diff |-> r.diff,
     oldAfter |-> r.oldSetup, newAfter |-> r.newSetup]

\* a caller of the module calls diffSetups on the two documents, in either
\* order, or on the first document and itself
CallDiffSetups ==
  /\ pc \in {"files", "calls"}
  /\ Len(reports) < MaxDiffCalls
  /\ \E args \in {<<oldSetup, newSetup, FALSE, "old-new">>,
                  <<newSetup, oldSetup, FALSE, "new-old">>,
                  <<oldSetup, oldSetup, TRUE, "old-old">>} :
       LET c == CallRecord(args[1], args[2], args[3]) IN
         /\ reports' = Append(reports, c)
         /\ oldSetup' = IF args[4] = "new-old" THEN c.newAfter ELSE c.oldAfter
         /\ newSetup' = IF args[4] = "old-new" THEN c.newAfter
                        ELSE IF args[4] = "new-old" THEN c.oldAfter
                        ELSE newSetup
  /\ pc' = "calls"
  /\ UNCHANGED <<captureVars, setup, edits, entry, validation, calls, warned, exitCode, applyVars>>

\* diff.js 35-49: the two files are parsed
DiffMainRead ==
  /\ pc = "files"
  /\ pc' = "read"
  /\ trail' = Append(trail, "read")
  /\ UNCHANGED <<captureVars, setup, edits, entry, validation, calls, warned, exitCode, flags, cmds,
                 diffVars>>

\* diff.js 51-55: the banner reads system.hostname and system.captureDate of
\* both documents
DiffMainBanner ==
  /\ pc = "read"
  /\ trail' = Append(trail, "banner")
  /\ LET threw == \/ ReadThrows(Get(oldSetup, "system"))
                  \/ ReadThrows(Get(newSetup, "system")) IN
       /\ pc' = IF threw THEN "crashed" ELSE "compare"
       /\ exitCode' = IF threw THEN 1 ELSE -1
  /\ UNCHANGED <<captureVars, setup, edits, entry, validation, calls, warned, flags, cmds, diffVars>>

\* diff.js 57: diffSetups(oldSetup, newSetup)
DiffMainDiff ==
  /\ pc = "compare"
  /\ trail' = Append(trail, "diffSetups")
  /\ LET c == CallRecord(oldSetup, newSetup, FALSE) IN
       /\ reports' = Append(reports, c)
       /\ oldSetup' = c.oldAfter
       /\ newSetup' = c.newAfter
       /\ pc' = IF c.threw THEN "crashed" ELSE "print"
       /\ exitCode' = IF c.threw THEN 1 ELSE -1
  /\ UNCHANGED <<captureVars, setup, edits, entry, validation, calls, warned, flags, cmds>>

\* diff.js 59-209: the report is printed and main returns
DiffMainPrint ==
  /\ pc = "print"
  /\ trail' = Append(trail, "print")
  /\ pc' = "done"
  /\ exitCode' = 0
  /\ UNCHANGED <<captureVars, setup, edits, entry, validation, calls, warned, flags, cmds, diffVars>>

NextDiff ==
  \/ EditOldSetup
  \/ EditNewSetup
  \/ CallDiffSetups
  \/ DiffMainRead
  \/ DiffMainBanner
  \/ DiffMainDiff
  \/ DiffMainPrint

SpecDiff == InitDiff /\ [][NextDiff]_vars

(***************************************************************************)
(* capture.js main (unnamed/part_003 534-656), on a machine where the      *)
(* commands that list applications and packages find nothing: the captured *)
(* document is the empty setup plus the shell configuration files found in *)
(* $HOME.                                                                  *)
(***************************************************************************)
\* capture.js 324-331
ConfigFiles ==
  << <<".", "z", "s", "h", "r", "c">>,
     <<".", "b", "a", "s", "h", "r", "c">>,
     <<".", "b", "a", "s", "h", "_", "p", "r", "o", "f", "i", "l", "e">>,
     <<".", "p", "r", "o", "f", "i", "l", "e">>,
     <<".", "z", "s", "h", "e", "n", "v">>,
     <<".", "c", "o", "n", "f", "i", "g", "/", "f", "i", "s", "h", "/",
       "c", "o", "n", "f", "i", "g", ".", "f", "i", "s", "h">> >>

\* what a shell configuration file may hold
S_ls     == <<"l", "s", "\n">>
S_apikey == <<"A", "P", "I", "_", "K", "E", "Y", "=">>
S_secret == <<"l", "s", "\n">> \o S_apikey \o <<"s", "k", "1">>
Contents == {S_empty, S_ls, S_secret}

MaxHomeFiles == 2

\* sub occurs in str at position i
OccursAt(str, sub, i) ==
  /\ i + Len(sub) - 1 <= Len(str)
  /\ SubSeq(str, i, i + Len(sub) - 1) = sub

\* detectSecrets of utils/exec.js, as SECURITY.md 42-71 describes it, for the
\* API key pattern: an assignment to API_KEY of a value that is not empty
ApiKeyMatches(content) ==
  {i \in 1..Len(content) :
     /\ OccursAt(content, S_apikey, i)
     /\ i + Len(S_apikey) <= Len(content)
     /\ content[i + Len(S_apikey)] \notin {" ", "\n"}}

detectSecrets(content) ==
  [hasSecrets |-> ApiKeyMatches(content) # {},
   secrets    |-> IF ApiKeyMatches(content) = {} THEN <<>>
                  ELSE <<[type |-> "API Key", count |-> Cardinality(ApiKeyMatches(content))]>>]

\* capture.js 339-345: the entry of one file
ShellConfig(k, content) ==
  Obj([f \in {"name", "path", "size", "lines", "content"} |->
        CASE f = "name"    -> Str(ConfigFiles[k])
          [] f = "path"    -> Str(<<"~", "/">> \o ConfigFiles[k])
          [] f = "size"    -> Num(Len(content))
          [] f = "lines"   -> Num(Len(Split(content, "\n")))
          [] f = "content" -> Str(content)])

\* getShellConfigs (capture.js 322-353): the files that exist, in the order
\* of configFiles
RECURSIVE getShellConfigs(_, _)
getShellConfigs(files, k) ==
  IF k > Len(ConfigFiles) THEN <<>>
  ELSE (IF k \in DOMAIN files THEN <<ShellConfig(k, files[k])>> ELSE <<>>)
       \o getShellConfigs(files, k + 1)

\* capture.js 606-621: the files in which secrets are detected, in order
RECURSIVE SecretScan(_)
SecretScan(configs) ==
  IF configs = <<>> THEN <<>>
  ELSE (IF detectSecrets(Get(configs[1], "content").s).hasSecrets
        THEN <<Get(configs[1], "name").s>> ELSE <<>>)
       \o SecretScan(Tail(configs))

NoCaptureFlags == [dryRun |-> FALSE, redact |-> FALSE, verbose |-> FALSE]

InitCapture ==
  /\ setup = Undefined
  /\ edits = 0
  /\ pc = "home"
  /\ entry = Undefined
  /\ validation = NoValidation
  /\ calls = <<>>
  /\ warned = FALSE
  /\ exitCode = -1
  /\ flags = NoCaptureFlags
  /\ cmds = <<>>
  /\ trail = <<>>
  /\ oldSetup = Undefined
  /\ newSetup = Undefined
  /\ reports = <<>>
  /\ home = <<>>
  /\ warnings = <<>>
  /\ written = Undefined

\* $HOME holds one more shell configuration file
WriteHomeFile ==
  /\ pc = "home"
  /\ edits < MaxHomeFiles
  /\ \E k \in (1..Len(ConfigFiles)) \ DOMAIN home : \E content \in Contents :
       home' = [j \in DOMAIN home \cup {k} |-> IF j = k THEN content ELSE home[j]]
  /\ edits' = edits + 1
  /\ UNCHANGED <<setup, pc, entry, validation, calls, warned, exitCode, applyVars, diffVars,
                 warnings, written>>

\* capture.js 535-558: the options; --help prints the usage and exits with 0
CaptureParseArgs ==
  /\ pc = "home"
  /\ \/ /\ flags' \in [dryRun : BOOLEAN, redact : BOOLEAN, verbose : BOOLEAN]
        /\ pc' = "inspect"
        /\ exitCode' = -1
     \/ /\ flags' = flags
        /\ pc' = "exited"
        /\ exitCode' = 0
  /\ UNCHANGED <<setup, edits, entry, validation, calls, warned, cmds, trail, diffVars,
                 captureVars>>

\* capture.js 560-603: the setup object is built and summarised
CaptureInspect ==
  /\ pc = "inspect"
  /\ \E date \in IsoDates :
       setup' = Put(createEmptySetup(date), "shellConfigs", Arr(getShellConfigs(home, 1)))
  /\ pc' = "scan"
  /\ trail' = Append(trail, "inspect")
  /\ UNCHANGED <<edits, entry, validation, calls, warned, exitCode, flags, cmds, diffVars,
                 captureVars>>

\* capture.js 605-621: without --redact-secrets the shell configurations
\* are scanned and a warning is printed for each file with secrets
CaptureScan ==
  /\ pc = "scan"
  /\ warnings' = IF ~flags.redact /\ LengthPositive(Get(setup, "shellConfigs"))
                 THEN SecretScan(Get(setup, "shellConfigs").a)
                 ELSE <<>>
  /\ pc' = "write"
  /\ trail' = Append(trail, "scan")
  /\ UNCHANGED <<setup, edits, entry, validation, calls, warned, exitCode, flags, cmds,
                 diffVars, home, written>>

\* capture.js 646-653: unless this is a dry run the setup object is written
\* to mac-setup.json as it stands
CaptureWrite ==
  /\ pc = "write"
  /\ written' = IF flags.dryRun THEN Undefined ELSE setup
  /\ pc' = "done"
  /\ exitCode' = 0
  /\ trail' = Append(trail, "write")
  /\ UNCHANGED <<setup, edits, entry, validation, calls, warned, flags, cmds, diffVars,
                 home, warnings>>

NextCapture ==
  \/ WriteHomeFile
  \/ CaptureParseArgs
  \/ CaptureInspect
  \/ CaptureScan
  \/ CaptureWrite

SpecCapture == InitCapture /\ [][NextCapture]_vars

(***************************************************************************)
(* Properties.                                                             *)
(***************************************************************************)
\* how many times msg occurs in errors
Count(errors, msg) == Cardinality({i \in 1..Len(errors) : errors[i] = msg})

Contains(errors, msg) == \E i \in 1..Len(errors) : errors[i] = msg

\* the last validateSetup call was made on a fresh factory document
OnFactory == validation.called /\ \E d \in IsoDates : entry = createEmptySetup(d)

\* C1: validateSetup applied to the document returned by createEmptySetup()
\* returns valid = true with an empty errors list.
C1_FactoryIsValid ==
  OnFactory => /\ ~validation.threw
               /\ validation.valid
               /\ validation.errors = <<>>

C1_Witness == OnFactory /\ edits = 0 /\ validation.valid

\* C2: for every input document, arrays with null entries included,
\* validateSetup returns a {valid, errors} result and never throws.
C2_NeverThrows == validation.called => ~validation.threw

\* the last validateSetup call was made on a document without a version key
OnLegacy == validation.called /\ ~HasOwn(entry, "version")

\* C3: a document with no version field has version "1.0" after validateSetup,
\* and the backfill adds nothing to errors: the outcome of the call is the
\* outcome on the same document carrying a version.
C3_BackfillIsSilent ==
  OnLegacy =>
    /\ Get(setup, "version") = Str(S_10)
    /\ \A v \in {Str(S_10), Str(S_20), Str(S_30)} :
         LET r == validateSetup(Put(entry, "version", v)) IN
           /\ r.threw = validation.threw
           /\ r.valid = validation.valid
           /\ r.errors = validation.errors

C3_Witness ==
  /\ OnLegacy /\ validation.valid
  /\ Get(setup, "version") = Str(S_10)

\* every key but version is as it was on entry to validateSetup
OthersUnchanged ==
  /\ (DOMAIN setup.o) \ {"version"} = (DOMAIN entry.o) \ {"version"}
  /\ \A k \in (DOMAIN entry.o) \ {"version"} : setup.o[k] = entry.o[k]

\* C4 as stated: validateSetup changes nothing but version, and writes version
\* only when the key was absent on entry.
C4_WritesOnlyAbsentVersion ==
  validation.called =>
    /\ OthersUnchanged
    /\ HasOwn(entry, "version") => setup = entry

\* C4 amended: validateSetup changes nothing but version, and writes version
\* (to "1.0") only when version was absent or falsy on entry; a document with
\* a truthy version is left exactly as it was.
C4_WritesOnlyFalsyVersion ==
  validation.called =>
    /\ OthersUnchanged
    /\ Truthy(Get(entry, "version")) => setup = entry
    /\ ~Truthy(Get(entry, "version")) => Get(setup, "version") = Str(S_10)

C4_Witness ==
  /\ validation.called
  /\ HasOwn(entry, "version") /\ ~Truthy(Get(entry, "version"))
  /\ setup # entry
  /\ OthersUnchanged

\* an element of casks or formulae that exposes no non-empty name
NoName(e) == ReadThrows(e) \/ ~Truthy(Get(e, "name"))

SystemFields == {"hostname", "macosVersion", "captureDate"}
Collections  == {"taps", "casks", "formulae"}
Managers     == {"npm", "bun", "dart", "ruby"}

\* C5: a document without a system section is reported invalid with a message
\* naming system; with a system section, errors holds exactly one message per
\* missing field among hostname, macosVersion, captureDate and none for a field
\* that is there.  (Read with the code's own notion of missing: not truthy.)
C5_SystemRule ==
  validation.called =>
    LET system == Get(entry, "system") IN
    /\ ~HasOwn(entry, "system") =>
         /\ ~validation.threw /\ ~validation.valid
         /\ Contains(validation.errors, "Missing required field: system")
    /\ Truthy(system) =>
         /\ ~validation.threw
         /\ \A f \in SystemFields :
              Count(validation.errors, "Missing required field: system." \o f)
                = IF Truthy(Get(system, f)) THEN 0 ELSE 1

\* C6: a document without a homebrew section is reported invalid with a
\* message naming homebrew; with a homebrew section, each of taps, casks,
\* formulae that is not an array yields exactly one error, and every entry of
\* casks or formulae without a non-empty name yields exactly one error carrying
\* the entry's index.
C6_HomebrewRule ==
  validation.called =>
    LET homebrew == Get(entry, "homebrew") IN
    /\ ~HasOwn(entry, "homebrew") =>
         /\ ~validation.threw /\ ~validation.valid
         /\ Contains(validation.errors, "Missing required field: homebrew")
    /\ Truthy(homebrew) =>
         /\ ~validation.threw
         /\ \A c \in Collections :
              Count(validation.errors,
                    "Invalid field: homebrew." \o c \o " must be an array")
                = IF IsArray(Get(homebrew, c)) THEN 0 ELSE 1
         /\ LET casks == Get(homebrew, "casks") IN
              IsArray(casks) => \A i \in 1..Len(casks.a) :
                Count(validation.errors, CaskMessage(i - 1))
                  = IF NoName(casks.a[i]) THEN 1 ELSE 0
         /\ LET formulae == Get(homebrew, "formulae") IN
              IsArray(formulae) => \A i \in 1..Len(formulae.a) :
                Count(validation.errors, FormulaMessage(i - 1))
                  = IF NoName(formulae.a[i]) THEN 1 ELSE 0

\* the optional array-typed fields, each with the message that names it
ArrayFields ==
  { <<<<"applications">>, "Invalid field: applications must be an array">>,
    <<<<"shellConfigs">>, "Invalid field: shellConfigs must be an array">>,
    <<<<"githubRepos">>, "Invalid field: githubRepos must be an array">>,
    <<<<"gitConfig", "settings">>, "Invalid field: gitConfig.settings must be an array">> }

\* C7: whenever an optional array-typed field is present with a value that is
\* not an array (0, "", false, a string, an object), validateSetup reports the
\* document invalid with an error naming the field.
C7_NonArrayRejected ==
  validation.called =>
    \A p \in ArrayFields :
      LET v == GetAt(entry, p[1]) IN
      (v # Undefined /\ ~IsArray(v)) =>
        /\ ~validation.threw /\ ~validation.valid
        /\ Contains(validation.errors, p[2])

\* C8: a present globalPackages that is not an object (a string, a number)
\* makes the document invalid, and so does any of its keys npm, bun, dart, ruby
\* present with a non-array value; other keys are never checked.
C8_GlobalPackagesRule ==
  validation.called =>
    LET globalPackages == Get(entry, "globalPackages") IN
    /\ globalPackages.t \in {"string", "number", "boolean"} =>
         ~validation.threw /\ ~validation.valid
    /\ \A m \in Managers :
         (HasOwn(globalPackages, m) /\ ~IsArray(globalPackages.o[m])) =>
           /\ ~validation.threw
           /\ Contains(validation.errors,
                       "Invalid field: globalPackages." \o m \o " must be an array")
    /\ ~Contains(validation.errors,
                 "Invalid field: globalPackages.pip must be an array")

\* the text of s before its first '.', all of s when it has none
BeforeFirstDot(s) ==
  LET dots == {i \in 1..Len(s) : s[i] = "."} IN
  IF dots = {} THEN s
  ELSE SubSeq(s, 1, (CHOOSE i \in dots : \A j \in dots : i <= j) - 1)

\* the last call made was isCompatibleVersion (setup is its argument: the
\* call does not write)
LastIsCompat == calls # <<>> /\ calls[Len(calls)].op = "isCompatibleVersion"
LastCall     == calls[Len(calls)]

\* C9 as stated: isCompatibleVersion returns true for a document without a
\* version field, and for a version string returns true exactly when the text
\* before its first '.' is the text before the first '.' of "2.0".
C9_MajorOfEveryString ==
  LastIsCompat =>
    LET version == Get(setup, "version") IN
    /\ ~HasOwn(setup, "version") => ~LastCall.threw /\ LastCall.ret
    /\ version.t = "string" =>
         /\ ~LastCall.threw
         /\ LastCall.ret = (BeforeFirstDot(version.s) = BeforeFirstDot(S_20))

\* C9 amended: isCompatibleVersion returns true for a document without a
\* version field and for one whose version is the empty string; for a
\* non-empty version string it returns true exactly when the text before its
\* first '.' is the text before the first '.' of "2.0".
C9_MajorOfNonEmptyString ==
  LastIsCompat =>
    LET version == Get(setup, "version") IN
    /\ (~HasOwn(setup, "version") \/ version = Str(S_empty)) =>
         ~LastCall.threw /\ LastCall.ret
    /\ (version.t = "string" /\ version.s # <<>>) =>
         /\ ~LastCall.threw
         /\ LastCall.ret = (BeforeFirstDot(version.s) = BeforeFirstDot(S_20))
    /\ version = Str(S_20) => LastCall.ret
    /\ version = Str(S_21) => LastCall.ret
    /\ version = Str(S_30) => ~LastCall.ret
    /\ version = Str(S_10) => ~LastCall.ret

C9_Witness ==
  /\ LastIsCompat
  /\ Get(setup, "version") = Str(S_210)
  /\ ~LastCall.ret

\* positions of the validateSetup calls in calls
ValidateAt == {i \in 1..Len(calls) : calls[i].op = "validateSetup"}

\* for a document that had no version field: every isCompatibleVersion call
\* made before validateSetup returned true, every one made after it false
LegacyOrder ==
  (OnLegacy /\ calls # <<>>) =>
    \A i \in 1..Len(calls) :
      calls[i].op = "isCompatibleVersion" =>
        /\ ~calls[i].threw
        /\ calls[i].ret = (\A j \in ValidateAt : i < j)

\* apply is running (or has ended) on a document that had no version field
ApplyOnLegacy == OnLegacy /\ calls = <<>>

\* C10 as stated: for a document with no version field isCompatibleVersion
\* returns true before validateSetup and false after it, and in apply a legacy
\* document always reaches the incompatibility warning.
C10_LegacyAlwaysWarned ==
  /\ LegacyOrder
  /\ ApplyOnLegacy => /\ pc \in {"validated", "banner"}
                      /\ pc = "banner" => warned

\* C10 amended: for a document with no version field isCompatibleVersion
\* returns true before validateSetup and false after it, and in apply a legacy
\* document that passes validation always reaches the incompatibility warning
\* (an invalid one exits with status 1 before the version check).
C10_ValidLegacyWarned ==
  /\ LegacyOrder
  /\ (ApplyOnLegacy /\ validation.valid) =>
                      /\ pc \in {"validated", "banner"}
                      /\ pc = "banner" => warned
  /\ (ApplyOnLegacy /\ ~validation.valid) => pc \in {"exited", "crashed"} /\ ~warned

C10_Witness ==
  \/ /\ ApplyOnLegacy /\ pc = "banner" /\ warned
  \/ /\ OnLegacy /\ Len(calls) = 3
     /\ calls[1].op = "isCompatibleVersion" /\ calls[1].ret
     /\ calls[2].op = "validateSetup"
     /\ calls[3].op = "isCompatibleVersion" /\ ~calls[3].ret

(***************************************************************************)
(* apply.js main: validation, the version warning and the dry run.         *)
(***************************************************************************)
\* the steps of main in the order of apply.js 573-670
MainOrder == <<"validate", "version", "banner", "homebrew", "taps", "formulae",
               "casks", "mas", "verify", "manual", "homeBin", "github", "global",
               "shell", "git", "versionManagers", "menubar", "finish">>

IsPrefix(a, b) == Len(a) <= Len(b) /\ a = SubSeq(b, 1, Len(a))

Executed(c) == \E i \in 1..Len(cmds) : cmds[i].cmd = c

\* C11: a document that passes validation and fails the version check gets
\* the warning and nothing else: the run goes through the steps of main in
\* their one order, and it never ends at the version check; after a warning
\* the only exit before the end is the missing Homebrew of a real run
C11_VersionOnlyWarns ==
  /\ IsPrefix(trail, MainOrder)
  /\ warned =>
       /\ validation.valid
       /\ ~(pc \in {"exited", "crashed"} /\ trail[Len(trail)] = "version")
       /\ pc = "exited" => trail[Len(trail)] = "homebrew" /\ ~flags.dryRun

C11_Witness ==
  /\ warned
  /\ pc = "done"
  /\ trail = MainOrder
  /\ Executed("brew install")

\* the commands that install something, and those that verify
StateChanging == {"brew tap", "brew install", "brew install --cask", "mas install",
                  "npm install -g", "bun install -g", "gem install",
                  "dart pub global activate"}
Verifying == {"brew list", "brew list --cask"}

\* C19: validateSetup is the first step of main, nothing is executed unless
\* it returned valid, and on an invalid document (or a TypeError raised by
\* the validator) the run ends there with status 1 and no command executed
C19_ValidateBeforeInstall ==
  /\ trail # <<>> => trail[1] = "validate" /\ validation.called
  /\ cmds # <<>> => validation.valid /\ ~validation.threw
  /\ validation.called /\ (validation.threw \/ ~validation.valid) =>
       /\ pc \in {"exited", "crashed"}
       /\ exitCode = 1
       /\ trail = <<"validate">>
       /\ cmds = <<>>

C19_Witness ==
  /\ validation.called
  /\ ~validation.threw
  /\ ~validation.valid
  /\ Len(Get(Get(entry, "homebrew"), "formulae").a) > 0
  /\ pc = "exited"

\* C20: in a dry run no installing command and no verifying command is
\* executed, whatever the other options
C20_DryRunExecutesNothing ==
  flags.dryRun =>
    \A i \in 1..Len(cmds) : cmds[i].cmd \notin StateChanging \cup Verifying

C20_Witness ==
  /\ flags.dryRun /\ flags.installMas /\ flags.installGlobalPackages /\ flags.verify
  /\ pc = "done"
  /\ Len(Get(Get(setup, "homebrew"), "taps").a) > 0
  /\ Len(Get(Get(setup, "homebrew"), "formulae").a) > 0
  /\ Len(Get(Get(setup, "homebrew"), "casks").a) > 0
  /\ Len(Get(Get(setup, "globalPackages"), "npm").a) > 0
  /\ Executed("which mas")

(***************************************************************************)
(* diffSetups and diff.js main.                                            *)
(***************************************************************************)
\* validateSetup returns valid on the document
Valid(doc) == LET v == validateSetup(doc) IN ~v.threw /\ v.valid

\* the calls diffSetups(a, b) made on two documents that both validate
ValidCalls == {i \in 1..Len(reports) : Valid(reports[i].old) /\ Valid(reports[i].new)}

\* the calls that returned a report
Returned == {i \in 1..Len(reports) : ~reports[i].threw}

\* the names of a list of entries, and the list of its entries' names
Names(list) == {Get(list[i], "name") : i \in 1..Len(list)}
NameSeq(list) == [i \in 1..Len(list) |-> Get(list[i], "name")]

\* the entries of a section of a document, none when the section is absent
AppsOf(doc) == Get(doc, "applications").a
BrewOf(doc, category) == Get(Get(doc, "homebrew"), category).a
GlobalOf(doc, manager) == Get(Get(doc, "globalPackages"), manager).a

\* C12: the diff of a valid document against itself returns a report whose
\* lists are all empty
C12_SelfDiffEmpty ==
  \A i \in ValidCalls :
    reports[i].old = reports[i].new =>
      ~reports[i].threw /\ reports[i].diff = EmptyDiff

\* C13: on valid documents the applications part of the report is keyed by
\* name: added holds one entry of new for every name of new that old lacks,
\* removed one entry of old for every name of old that new lacks, updated
\* one {name, oldVersion, newVersion} for every name of both sides whose
\* versions differ, and nothing else is listed
C13_ApplicationsRule ==
  \A i \in ValidCalls :
    LET old == AppsOf(reports[i].old)
        new == AppsOf(reports[i].new)
        d   == reports[i].diff.applications
    IN  /\ ~reports[i].threw
        /\ Names(d.added) = Names(new) \ Names(old)
        /\ \A k \in 1..Len(d.added) : \E j \in 1..Len(new) : d.added[k] = new[j]
        /\ Names(d.removed) = Names(old) \ Names(new)
        /\ \A k \in 1..Len(d.removed) : \E j \in 1..Len(old) : d.removed[k] = old[j]
        /\ \A n \in Names(old) \cap Names(new) :
             LET o == MapGet(old, n)
                 w == MapGet(new, n)
             IN  (Get(o, "version") # Get(w, "version"))
                   <=> (\E k \in 1..Len(d.updated) : d.updated[k] = UpdatedEntry(n, o, w))
        /\ Names(d.updated) \subseteq Names(old) \cap Names(new)

\* C14: for valid A and B, the names added by diffSetups(A, B) are the names
\* removed by diffSetups(B, A), and the other way round
C14_AddedRemovedSymmetry ==
  \A i \in ValidCalls : \A j \in ValidCalls :
    (reports[i].old = reports[j].new /\ reports[i].new = reports[j].old) =>
      /\ ~reports[i].threw
      /\ ~reports[j].threw
      /\ Names(reports[i].diff.applications.added)
           = Names(reports[j].diff.applications.removed)
      /\ Names(reports[i].diff.applications.removed)
           = Names(reports[j].diff.applications.added)

\* the canonical names of a list of package references
PackageNames(pkgs) == {PackageKey(pkgs[i]) : i \in 1..Len(pkgs)}
Members(list) == {list[i] : i \in 1..Len(list)}

\* C15: on valid documents, in each homebrew category and for each manager,
\* added is the names of new absent from old and removed the names of old
\* absent from new, as bare strings
C15_PackagesRule ==
  \A i \in ValidCalls :
    /\ ~reports[i].threw
    /\ \A c \in {"formulae", "casks", "taps"} :
         LET d == reports[i].diff.homebrew[c]
             old == PackageNames(BrewOf(reports[i].old, c))
             new == PackageNames(BrewOf(reports[i].new, c))
         IN  /\ Members(d.added) = new \ old
             /\ Members(d.removed) = old \ new
             /\ \A x \in Members(d.added) \cup Members(d.removed) : IsString(x)
    /\ \A m \in {"npm", "bun", "dart", "ruby"} :
         LET d == reports[i].diff.globalPackages[m]
             old == PackageNames(GlobalOf(reports[i].old, m))
             new == PackageNames(GlobalOf(reports[i].new, m))
         IN  /\ Members(d.added) = new \ old
             /\ Members(d.removed) = old \ new
             /\ \A x \in Members(d.added) \cup Members(d.removed) : IsString(x)

\* a is b with some elements left out
RECURSIVE IsSubSeq(_, _)
IsSubSeq(a, b) ==
  IF a = <<>> THEN TRUE
  ELSE IF b = <<>> THEN FALSE
  ELSE IF a[1] = b[1] THEN IsSubSeq(Tail(a), Tail(b))
  ELSE IsSubSeq(a, Tail(b))

Reported(pkgs) == [i \in 1..Len(pkgs) |-> PackageReported(pkgs[i])]

\* the package lists of a report keep the order of the collections
PackageOrder(r) ==
  /\ \A c \in {"formulae", "casks", "taps"} :
       /\ IsSubSeq(r.diff.homebrew[c].added, Reported(BrewOf(r.new, c)))
       /\ IsSubSeq(r.diff.homebrew[c].removed, Reported(BrewOf(r.old, c)))
  /\ \A m \in {"npm", "bun", "dart", "ruby"} :
       /\ IsSubSeq(r.diff.globalPackages[m].added, Reported(GlobalOf(r.new, m)))
       /\ IsSubSeq(r.diff.globalPackages[m].removed, Reported(GlobalOf(r.old, m)))

\* C16 as stated: in every report the entries of added are in the relative
\* order of their entries in the new collection, those of removed in that of
\* the old collection
C16_EntryOrder ==
  \A i \in Returned :
    /\ IsSubSeq(reports[i].diff.applications.added, AppsOf(reports[i].new))
    /\ IsSubSeq(reports[i].diff.applications.removed, AppsOf(reports[i].old))
    /\ PackageOrder(reports[i])

\* C16 amended: the names of added are in the order in which the names first
\* occur in the new collection, those of removed in the order in which they
\* first occur in the old one; packages are listed once per reference, in
\* the order of the references
C16_FirstOccurrenceOrder ==
  \A i \in Returned :
    /\ IsSubSeq(NameSeq(reports[i].diff.applications.added),
                MapKeys(AppsOf(reports[i].new), {}))
    /\ IsSubSeq(NameSeq(reports[i].diff.applications.removed),
                MapKeys(AppsOf(reports[i].old), {}))
    /\ PackageOrder(reports[i])

C16_Witness ==
  \E i \in Returned :
    /\ Len(reports[i].diff.homebrew.formulae.added) = 2
    /\ reports[i].diff.homebrew.formulae.added[1]
         # reports[i].diff.homebrew.formulae.added[2]
    /\ Len(reports[i].diff.applications.added) = 2

C18_ValidatedBeforeDiff ==
  (\E k \in 1..Len(trail) : trail[k] = "diffSetups") =>
    Valid(oldSetup) /\ Valid(newSetup)

(***************************************************************************)
(* apply.js: the names that reach a command.                               *)
(***************************************************************************)
\* the commands apply builds from package names of the document
Interpolating == {"brew tap", "brew install", "brew install --cask", "npm install -g",
                  "bun install -g", "gem install", "dart pub global activate"}

\* C21: every name in the text of an executed command that is built from
\* package names matches the allowed-character pattern
C21_OnlyCheckedNames ==
  \A i \in 1..Len(cmds) :
    cmds[i].cmd \in Interpolating =>
      LET names == Split(cmds[i].text, " ")
      IN  \A w \in 1..Len(names) : PackagePattern(names[w])

(***************************************************************************)
(* capture.js: secrets in the written document.                            *)
(***************************************************************************)
\* C22: with --redact-secrets, no shell configuration content of the
\* written document holds a secret that detectSecrets finds
C22_RedactedWhenWritten ==
  (flags.redact /\ written # Undefined) =>
    \A i \in 1..Len(Get(written, "shellConfigs").a) :
      ~detectSecrets(Get(Get(written, "shellConfigs").a[i], "content").s).hasSecrets


(***************************************************************************)
(* apply.js: a valid document runs to the end.                             *)
(***************************************************************************)
\* C23: a run of apply on a document that validateSetup reported valid
\* never ends in a runtime fault: it ends only by the Homebrew check or by
\* the final output
C23_ValidRunsToTheEnd ==
  (validation.called /\ ~validation.threw /\ validation.valid) =>
    /\ pc # "crashed"
    /\ pc = "exited" => trail[Len(trail)] = "homebrew"


(***************************************************************************)
(* apply.js: verification.  Each turn of the two loops of                  *)
(* verifyInstallations executes one brew list and adds one to verified or  *)
(* to failed (apply.js 682-687, 693-698), so verified + failed is the      *)
(* number of lookups executed.                                             *)
(***************************************************************************)
Lookups == Len(SelectSeq(cmds, LAMBDA c : c.cmd \in Verifying))

Verified == flags.verify /\ ~flags.dryRun /\ \E i \in 1..Len(trail) : trail[i] = "verify"

\* C24: with --verify and without --dry-run, verification comes after the
\* Homebrew installation steps and looks up every formula and every cask:
\* verified + failed is the number of formulae plus the number of casks
C24_VerifiesEveryPackage ==
  Verified =>
    /\ IsPrefix(<<"validate", "version", "banner", "homebrew", "taps", "formulae",
                  "casks", "mas", "verify">>, trail)
    /\ pc # "crashed" =>
         Lookups = Len(Get(Get(setup, "homebrew"), "formulae").a)
                     + Len(Get(Get(setup, "homebrew"), "casks").a)


(***************************************************************************)
(* validateSetup: accumulation.                                            *)
(***************************************************************************)
NoErrors == [threw |-> FALSE, errors |-> <<>>]

\* the messages of each rule applied on its own to the document, in the
\* order of the rules
RuleMessages(doc) ==
  CheckSystem(doc, NoErrors).errors
    \o CheckHomebrew(doc, NoErrors).errors
    \o CheckApplications(doc, NoErrors).errors
    \o CheckGlobalPackages(doc, NoErrors).errors
    \o CheckShellConfigs(doc, NoErrors).errors
    \o CheckGitConfig(doc, NoErrors).errors
    \o CheckGithubRepos(doc, NoErrors).errors

\* C25: one call of validateSetup returns the messages of all the
\* violations in the document, in the order of the rules, never stopping
\* at the first
C25_AllViolationsReported ==
  validation.called =>
    /\ ~validation.threw
    /\ validation.errors = RuleMessages(entry)


(***************************************************************************)
(* apply.js: batches.                                                      *)
(***************************************************************************)
RECURSIVE Concat(_)
Concat(seqs) == IF seqs = <<>> THEN <<>> ELSE Head(seqs) \o Concat(Tail(seqs))

\* the commands c executed so far, and the names each of them was given
Runs(c) == SelectSeq(cmds, LAMBDA e : e.cmd = c)
Installed(c) == [i \in 1..Len(Runs(c)) |-> Split(Runs(c)[i].text, " ")]

StepTaken(name) == \E i \in 1..Len(trail) : trail[i] = name

\* batches hold the names in order, each name in one batch, none is empty,
\* none is longer than size and only the last may be shorter
InBatches(batches, names, size) ==
  /\ Concat(batches) = names
  /\ \A i \in 1..Len(batches) :
       /\ Len(batches[i]) \in 1..size
       /\ i < Len(batches) => Len(batches[i]) = size

\* C26: installFormulae and installCasks execute one install command per
\* batch, in order, the batches being the sanitized names cut into runs of
\* 50 and of 30, whether or not the command of an earlier batch failed
C26_OneCommandPerBatch ==
  ~flags.dryRun =>
    /\ StepTaken("formulae") =>
         InBatches(Installed("brew install"),
                   sanitizePackages(Get(Get(setup, "homebrew"), "formulae").a),
                   FORMULA_BATCH_SIZE)
    /\ StepTaken("casks") =>
         InBatches(Installed("brew install --cask"),
                   sanitizePackages(Get(Get(setup, "homebrew"), "casks").a),
                   CASK_BATCH_SIZE)

C26_Witness ==
  /\ pc = "done"
  /\ ~flags.dryRun
  /\ Len(Runs("brew install")) = 2
  /\ ~Runs("brew install")[1].ok
  /\ Len(Installed("brew install")[1]) = FORMULA_BATCH_SIZE
  /\ Len(Installed("brew install")[2]) = 1
  /\ Len(Runs("brew install --cask")) = 2
  /\ ~Runs("brew install --cask")[1].ok
  /\ Len(Installed("brew install --cask")[1]) = CASK_BATCH_SIZE


(***************************************************************************)
(* diffSetups: totality on valid documents and the shape of the lists.     *)
(***************************************************************************)
\* C27: diffSetups called on two documents that validateSetup reports
\* valid returns a report: it does not raise
C27_DiffOfValidReturns ==
  \A i \in ValidCalls : ~reports[i].threw


\* C28: isCompatibleVersion called on a document that validateSetup reports
\* valid returns true or false: it does not raise, whatever the type of
\* the version
C28_VersionCheckReturns ==
  (LastIsCompat /\ Valid(setup)) => ~LastCall.threw /\ LastCall.ret \in BOOLEAN


\* no value occurs at two places of the list
NoRepeat(list) == \A a \in 1..Len(list) : \A b \in 1..Len(list) : list[a] = list[b] => a = b

\* C29: in a diff report no name occurs more than once in any added or
\* removed list, whatever is listed several times in the documents
C29_NoNameTwice ==
  \A i \in Returned :
    /\ NoRepeat(NameSeq(reports[i].diff.applications.added))
    /\ NoRepeat(NameSeq(reports[i].diff.applications.removed))
    /\ \A c \in {"formulae", "casks", "taps"} :
         /\ NoRepeat(reports[i].diff.homebrew[c].added)
         /\ NoRepeat(reports[i].diff.homebrew[c].removed)
    /\ \A m \in {"npm", "bun", "dart", "ruby"} :
         /\ NoRepeat(reports[i].diff.globalPackages[m].added)
         /\ NoRepeat(reports[i].diff.globalPackages[m].removed)


\* the names a list of a report holds; an entry without a name is listed as
\* undefined, which is no name
Listed(list) == {x \in Members(list) : IsString(x)}

\* added and removed hold no name in common, and no name of the side they
\* are not taken from
Apart(d, old, new) ==
  /\ Listed(d.added) \cap Listed(d.removed) = {}
  /\ Listed(d.added) \cap PackageNames(old) = {}
  /\ Listed(d.removed) \cap PackageNames(new) = {}

====
